---- MODULE Spec2Model ----
(***************************************************************************)
(* Model of the snn-core / snn-core-plus spiking-network engine:           *)
(*   snn-core/src/event_queue.rs   TimeWheel, SpikeEvent                   *)
(*   snn-core/src/neuron.rs        Neuron::inject                          *)
(*   snn-core/src/runtime.rs       SnnRuntime (naive edge scan)            *)
(*   snn-core-plus/src/runtime_plus.rs  SnnRuntimePlus (adjacency index,   *)
(*                                      per-tick budgets)                  *)
(*   snn-tui/src/backend.rs        CoreBackend::new (the demo network)     *)
(*                                                                         *)
(* Rust Vec<T> is a TLA+ sequence; the element at Rust index i is v[i+1].  *)
(* Option<T> is a record [some, v].  u64 is the range 0..U64Max with       *)
(* saturating addition; i32 keeps its real width.                          *)
(* The stepping code is modelled as built without the "plasticity"         *)
(* feature (no rule installed).                                            *)
(***************************************************************************)
EXTENDS Integers, Sequences, FiniteSets, TLC

(***************************************************************************)
(* Bounds of the model                                                     *)
(***************************************************************************)
\* the largest value of the (narrowed) u64 tick type
U64Max == 63
\* wheel sizes 1..MaxWheel are tried for the small networks
MaxWheel == 3
\* externally seeded events per run, the seed of a scenario included
MaxSeeds == 2
\* API calls per run
MaxOps == 3

(***************************************************************************)
(* Option<T>                                                               *)
(***************************************************************************)
None == [some |-> FALSE, v |-> 0]
Some(x) == [some |-> TRUE, v |-> x]

(***************************************************************************)
(* Integer types                                                           *)
(***************************************************************************)
I32_MAX == 2147483647
I32_MIN == -I32_MAX - 1

\* i32::saturating_add
i32_saturating_add(a, b) ==
    IF b > 0 /\ a > I32_MAX - b THEN I32_MAX
    ELSE IF b < 0 /\ a < I32_MIN - b THEN I32_MIN
    ELSE a + b

\* u64::saturating_add
u64_saturating_add(a, b) ==
    IF a > U64Max - b THEN U64Max ELSE a + b

(***************************************************************************)
(* fixed.rs: Q16.16.  An f32 argument is the exact rational num/den (the   *)
(* values used are multiples of 1/4, which f32 represents exactly).        *)
(***************************************************************************)
FRACTIONAL_BITS == 16
SCALE == 2 ^ FRACTIONAL_BITS

F32(num, den) == [num |-> num, den |-> den]

\* (x * SCALE as f32) as Fixed: the cast truncates toward zero and saturates
to_fixed(x) ==
    LET p == x.num * SCALE
        q == IF p >= 0 THEN p \div x.den ELSE -((-p) \div x.den)
    IN  IF q > I32_MAX THEN I32_MAX ELSE IF q < I32_MIN THEN I32_MIN ELSE q

(***************************************************************************)
(* neuron.rs                                                               *)
(***************************************************************************)
Neuron_new(id, threshold) ==
    [id |-> id, membrane |-> 0, threshold |-> to_fixed(threshold),
     refractory_until |-> 0]

MutInjectIgnoresRefractory(n, input, time) ==
    LET m == i32_saturating_add(n.membrane, input)
    IN  IF m >= n.threshold
        THEN [neuron |-> [n EXCEPT !.membrane = 0], fired |-> TRUE]
        ELSE [neuron |-> [n EXCEPT !.membrane = m], fired |-> FALSE]

\* the input is accumulated during the refractory period too
MutInjectAccumulatesInRefractory(n, input, time) ==
    LET m == i32_saturating_add(n.membrane, input)
    IN  IF time < n.refractory_until
        THEN [neuron |-> [n EXCEPT !.membrane = m], fired |-> FALSE]
        ELSE IF m >= n.threshold
             THEN [neuron |-> [n EXCEPT !.membrane = 0], fired |-> TRUE]
             ELSE [neuron |-> [n EXCEPT !.membrane = m], fired |-> FALSE]

\* a negative membrane is clamped to 0
MutInjectClampsNegative(n, input, time) ==
    IF time < n.refractory_until
    THEN [neuron |-> n, fired |-> FALSE]
    ELSE LET m == i32_saturating_add(n.membrane, input)
         IN  IF m >= n.threshold
             THEN [neuron |-> [n EXCEPT !.membrane = 0], fired |-> TRUE]
             ELSE [neuron |-> [n EXCEPT !.membrane = IF m < 0 THEN 0 ELSE m],
                   fired |-> FALSE]

\* the membrane leaks: half of it is lost before the input is added
MutInjectLeaky(n, input, time) ==
    IF time < n.refractory_until
    THEN [neuron |-> n, fired |-> FALSE]
    ELSE LET m == i32_saturating_add(n.membrane \div 2, input)
         IN  IF m >= n.threshold
             THEN [neuron |-> [n EXCEPT !.membrane = 0], fired |-> TRUE]
             ELSE [neuron |-> [n EXCEPT !.membrane = m], fired |-> FALSE]

\* Neuron::inject: the neuron afterwards, and the returned bool
\* the neuron fires and keeps the sum as its membrane
MutInjectKeepsSum(n, input, time) ==
    IF time < n.refractory_until
    THEN [neuron |-> n, fired |-> FALSE]
    ELSE LET m == i32_saturating_add(n.membrane, input)
         IN  [neuron |-> [n EXCEPT !.membrane = m], fired |-> m >= n.threshold]

\* a neuron that fires is made refractory for the next tick
MutInjectSetsRefractory(n, input, time) ==
    IF time < n.refractory_until
    THEN [neuron |-> n, fired |-> FALSE]
    ELSE LET m == i32_saturating_add(n.membrane, input)
         IN  IF m >= n.threshold
             THEN [neuron |-> [n EXCEPT !.membrane = 0,
                                        !.refractory_until =
                                            u64_saturating_add(time, 1)],
                   fired |-> TRUE]
             ELSE [neuron |-> [n EXCEPT !.membrane = m], fired |-> FALSE]

Neuron_inject(n, input, time) ==
    IF time < n.refractory_until
    THEN [neuron |-> n, fired |-> FALSE]
    ELSE LET m == i32_saturating_add(n.membrane, input)
         IN  IF m >= n.threshold
             THEN [neuron |-> [n EXCEPT !.membrane = 0], fired |-> TRUE]
             ELSE [neuron |-> [n EXCEPT !.membrane = m], fired |-> FALSE]

(***************************************************************************)
(* event_queue.rs                                                          *)
(* A stored event carries, besides neuron_id and time, two history fields: *)
(* seq, the number of schedule calls made on the wheel before it, and at,  *)
(* the wheel's current_time when it was scheduled.  The wheel counts its   *)
(* schedule calls in the history field scheduled.  No modelled code reads  *)
(* a history field.                                                        *)
(***************************************************************************)
SpikeEvent(neuron_id, time) == [neuron_id |-> neuron_id, time |-> time]

Stamp(q, event) ==
    [neuron_id |-> event.neuron_id, time |-> event.time,
     seq |-> q.scheduled, at |-> q.current_time]

Plain(e) == SpikeEvent(e.neuron_id, e.time)

PlainSeq(es) == [i \in 1..Len(es) |-> Plain(es[i])]

TimeWheel_new(wheel_size) ==
    [buckets |-> [k \in 0..(wheel_size - 1) |-> <<>>],
     current_time |-> 0,
     wheel_size |-> wheel_size,
     scheduled |-> 0]

MutScheduleSlotByCurrent(q, event) ==
    LET slot == (q.current_time + event.time) % q.wheel_size
    IN  [q EXCEPT !.buckets[slot] = Append(@, Stamp(q, event)),
                  !.scheduled = @ + 1]

MutSchedulePrepend(q, event) ==
    LET slot == event.time % q.wheel_size
    IN  [q EXCEPT !.buckets[slot] = <<Stamp(q, event)>> \o @,
                  !.scheduled = @ + 1]

\* an event whose time has passed is put into the slot of the current tick
MutSchedulePastToCurrent(q, event) ==
    LET slot == (IF event.time < q.current_time
                 THEN q.current_time ELSE event.time) % q.wheel_size
    IN  [q EXCEPT !.buckets[slot] = Append(@, Stamp(q, event)),
                  !.scheduled = @ + 1]

TimeWheel_schedule(q, event) ==
    LET slot == event.time % q.wheel_size
    IN  [q EXCEPT !.buckets[slot] = Append(@, Stamp(q, event)),
                  !.scheduled = @ + 1]

MutNextWrapping(q) ==
    LET slot == q.current_time % q.wheel_size
    IN  [queue |-> [q EXCEPT !.buckets[slot] = <<>>,
                             !.current_time = (@ + 1) % (U64Max + 1)],
         events |-> q.buckets[slot]]

MutNextPopsAhead(q) ==
    LET slot == (q.current_time + 1) % q.wheel_size
    IN  [queue |-> [q EXCEPT !.buckets[slot] = <<>>,
                             !.current_time = u64_saturating_add(@, 1)],
         events |-> q.buckets[slot]]

\* only the events whose time has come are taken out of the slot
MutNextByTime(q) ==
    LET slot == q.current_time % q.wheel_size
    IN  [queue |-> [q EXCEPT
                      !.buckets[slot] =
                          SelectSeq(@, LAMBDA e : e.time > q.current_time),
                      !.current_time = u64_saturating_add(@, 1)],
         events |-> SelectSeq(q.buckets[slot],
                              LAMBDA e : e.time <= q.current_time)]

\* the slot is returned and left in the wheel
MutNextLeavesSlot(q) ==
    LET slot == q.current_time % q.wheel_size
    IN  [queue |-> [q EXCEPT !.current_time = u64_saturating_add(@, 1)],
         events |-> q.buckets[slot]]

\* TimeWheel::next: the wheel afterwards, and the returned Vec
TimeWheel_next(q) ==
    LET slot == q.current_time % q.wheel_size
    IN  [queue |-> [q EXCEPT !.buckets[slot] = <<>>,
                             !.current_time = u64_saturating_add(@, 1)],
         events |-> q.buckets[slot]]

(***************************************************************************)
(* hypergraph.rs, runtime.rs: SnnRuntime                                   *)
(***************************************************************************)
HyperEdge(id, sources, targets, weight, delay) ==
    [id |-> id, sources |-> sources, targets |-> targets,
     weight |-> weight, delay |-> delay]

SnnRuntime_new(wheel_size) ==
    [neurons |-> <<>>, edges |-> <<>>, queue |-> TimeWheel_new(wheel_size)]

SnnRuntime_add_neuron(inner, threshold) ==
    [inner EXCEPT !.neurons = Append(@, Neuron_new(Len(@), threshold))]

SnnRuntime_add_edge(inner, sources, targets, weight, delay) ==
    [inner EXCEPT !.edges =
        Append(@, HyperEdge(Len(@), sources, targets, to_fixed(weight), delay))]

(***************************************************************************)
(* runtime_plus.rs: SnnRuntimePlus construction                            *)
(***************************************************************************)
StepBudgets(max_edge_visits, max_spikes_scheduled) ==
    [max_edge_visits |-> max_edge_visits,
     max_spikes_scheduled |-> max_spikes_scheduled]

\* StepBudgets::default()
StepBudgets_default == StepBudgets(None, None)

SnnRuntimePlus_new(wheel_size) ==
    [inner |-> SnnRuntime_new(wheel_size), source_to_edges |-> <<>>]

\* ensure_neuron_capacity, on the adjacency vector
ensure_neuron_capacity(adj, id) ==
    IF Len(adj) < id + 1
    THEN adj \o [i \in 1..(id + 1 - Len(adj)) |-> <<>>]
    ELSE adj

SnnRuntimePlus_add_neuron(rt, threshold) ==
    [inner |-> SnnRuntime_add_neuron(rt.inner, threshold),
     source_to_edges |->
        ensure_neuron_capacity(rt.source_to_edges, Len(rt.inner.neurons))]

RECURSIVE MutAddEdgeWrongId(_, _, _, _)
MutAddEdgeWrongId(adj, sources, next_id, k) ==
    IF k > Len(sources) THEN adj
    ELSE LET grown == ensure_neuron_capacity(adj, sources[k])
         IN  MutAddEdgeWrongId(
                 [grown EXCEPT ![sources[k] + 1] = Append(@, next_id + 1)],
                 sources, next_id, k + 1)

\* the loop "for s in sources" of add_edge, from the k-th source on
RECURSIVE add_edge_sources(_, _, _, _)
add_edge_sources(adj, sources, next_id, k) ==
    IF k > Len(sources) THEN adj
    ELSE LET grown == ensure_neuron_capacity(adj, sources[k])
         IN  add_edge_sources(
                 [grown EXCEPT ![sources[k] + 1] = Append(@, next_id)],
                 sources, next_id, k + 1)

SnnRuntimePlus_add_edge(rt, sources, targets, weight, delay) ==
    [inner |-> SnnRuntime_add_edge(rt.inner, sources, targets, weight, delay),
     source_to_edges |->
        add_edge_sources(rt.source_to_edges, sources, Len(rt.inner.edges), 1)]

\* rebuild_adjacency: "for &s in &edge.sources", from the k-th source on
RECURSIVE rebuild_sources(_, _, _)
rebuild_sources(adj, edge, k) ==
    IF k > Len(edge.sources) THEN adj
    ELSE IF edge.sources[k] < Len(adj)
         THEN rebuild_sources(
                  [adj EXCEPT ![edge.sources[k] + 1] = Append(@, edge.id)],
                  edge, k + 1)
         ELSE rebuild_sources(adj, edge, k + 1)

\* rebuild_adjacency: "for edge in &self.inner.edges", from the i-th edge on
RECURSIVE rebuild_edges(_, _, _)
rebuild_edges(adj, edges, i) ==
    IF i > Len(edges) THEN adj
    ELSE rebuild_edges(rebuild_sources(adj, edges[i], 1), edges, i + 1)

rebuild_adjacency(inner) ==
    rebuild_edges([i \in 1..Len(inner.neurons) |-> <<>>], inner.edges, 1)

SnnRuntimePlus_from_inner(inner) ==
    [inner |-> inner, source_to_edges |-> rebuild_adjacency(inner)]

(***************************************************************************)
(* runtime_plus.rs: step_once_with_budgets                                 *)
(* The loops thread a record st: the neurons, edges and wheel being        *)
(* mutated, the two counters, brk (break 'events_loop was taken), and the  *)
(* history of the call: visited (edge ids whose visit was counted),        *)
(* injected (each inject call made: its target and what it returned) and   *)
(* delivered (the arguments of each inject call made).                     *)
(***************************************************************************)
\* "if let Some(max_visits) = budgets.max_edge_visits { if edge_visits >= max_visits"
MutEdgeBudgetOffByOne(budgets, edge_visits) ==
    budgets.max_edge_visits.some /\ edge_visits > budgets.max_edge_visits.v

edge_budget_reached(budgets, edge_visits) ==
    budgets.max_edge_visits.some /\ edge_visits >= budgets.max_edge_visits.v

\* "if let Some(max_spikes) = budgets.max_spikes_scheduled { if spikes_scheduled >= max_spikes"
MutSpikeBudgetOffByOne(budgets, spikes_scheduled) ==
    budgets.max_spikes_scheduled.some
        /\ spikes_scheduled > budgets.max_spikes_scheduled.v

spike_budget_reached(budgets, spikes_scheduled) ==
    budgets.max_spikes_scheduled.some
        /\ spikes_scheduled >= budgets.max_spikes_scheduled.v

\* "let deliver_time = ev.time.saturating_add(edge.delay)"
MutDeliverTimeNoDelay(ev, edge) == ev.time

deliver_time(ev, edge) == u64_saturating_add(ev.time, edge.delay)

\* "for &tgt in &edge.targets", from the k-th target on
RECURSIVE targets_loop(_, _, _, _, _)
targets_loop(st, ev, eid, budgets, k) ==
    LET edge == st.edges[eid + 1] IN
    IF st.brk \/ k > Len(edge.targets) THEN st
    ELSE
      LET tgt == edge.targets[k] IN
      IF tgt >= Len(st.neurons) THEN targets_loop(st, ev, eid, budgets, k + 1)
      ELSE
        LET r == Neuron_inject(st.neurons[tgt + 1], edge.weight,
                               deliver_time(ev, edge))
            st1 == [st EXCEPT
                      !.neurons[tgt + 1] = r.neuron,
                      !.injected = Append(@, [tgt |-> tgt, fired |-> r.fired]),
                      !.delivered = Append(@, [input |-> edge.weight,
                                               time |-> deliver_time(ev, edge)])]
        IN
        IF ~r.fired THEN targets_loop(st1, ev, eid, budgets, k + 1)
        ELSE
          IF spike_budget_reached(budgets, st1.spikes_scheduled)
          THEN [st1 EXCEPT !.brk = TRUE]
          ELSE targets_loop(
                 [st1 EXCEPT
                    !.queue = TimeWheel_schedule(
                                  @, SpikeEvent(tgt, deliver_time(ev, edge))),
                    !.spikes_scheduled = @ + 1],
                 ev, eid, budgets, k + 1)

\* "for &eid in edge_ids", from the i-th entry of the adjacency row on
RECURSIVE edges_loop(_, _, _, _, _)
edges_loop(st, ev, edge_ids, budgets, i) ==
    IF st.brk \/ i > Len(edge_ids) THEN st
    ELSE
      LET eid == edge_ids[i] IN
      IF edge_budget_reached(budgets, st.edge_visits)
      THEN [st EXCEPT !.brk = TRUE]
      ELSE
        LET st1 == [st EXCEPT !.edge_visits = @ + 1,
                              !.visited = Append(@, eid)]
        IN
        IF eid >= Len(st1.edges)
        THEN edges_loop(st1, ev, edge_ids, budgets, i + 1)
        ELSE edges_loop(targets_loop(st1, ev, eid, budgets, 1),
                        ev, edge_ids, budgets, i + 1)

\* "'events_loop: for ev in &events", from the j-th popped event on
RECURSIVE events_loop(_, _, _, _, _)
events_loop(st, events, source_to_edges, budgets, j) ==
    IF st.brk \/ j > Len(events) THEN st
    ELSE
      LET ev == events[j]
          src == ev.neuron_id
      IN
      IF src >= Len(source_to_edges)
      THEN events_loop(st, events, source_to_edges, budgets, j + 1)
      ELSE events_loop(
             edges_loop(st, ev, source_to_edges[src + 1], budgets, 1),
             events, source_to_edges, budgets, j + 1)

\* the loop state at the start of a step, after the slot was popped
LoopStart(inner, queue) ==
    [neurons |-> inner.neurons, edges |-> inner.edges, queue |-> queue,
     edge_visits |-> 0, spikes_scheduled |-> 0, brk |-> FALSE,
     visited |-> <<>>, injected |-> <<>>, delivered |-> <<>>]

\* what a step hands back: the runtime afterwards, the returned events,
\* and the history of the call
StepResult(kind, rt, budgets, events, st) ==
    [rt |-> [rt EXCEPT !.inner.neurons = st.neurons,
                       !.inner.edges = st.edges,
                       !.inner.queue = st.queue],
     events |-> events,
     log |-> [kind |-> kind, budgets |-> budgets, before |-> rt,
              events |-> events,
              edge_visits |-> st.edge_visits,
              spikes_scheduled |-> st.spikes_scheduled,
              tripped |-> st.brk,
              visited |-> st.visited, injected |-> st.injected,
              delivered |-> st.delivered]]

MutStepRequeuesOnTrip(rt, budgets) ==
    LET nx == TimeWheel_next(rt.inner.queue)
        st == events_loop(LoopStart(rt.inner, nx.queue), nx.events,
                          rt.source_to_edges, budgets, 1)
        slot == st.queue.current_time % st.queue.wheel_size
    IN  IF st.brk
        THEN StepResult("plus", rt, budgets, nx.events,
                        [st EXCEPT !.queue.buckets[slot] = @ \o nx.events])
        ELSE StepResult("plus", rt, budgets, nx.events, st)

SnnRuntimePlus_step_once_with_budgets(rt, budgets) ==
    LET nx == TimeWheel_next(rt.inner.queue)
        st == events_loop(LoopStart(rt.inner, nx.queue), nx.events,
                          rt.source_to_edges, budgets, 1)
    IN  StepResult("plus", rt, budgets, nx.events, st)

SnnRuntimePlus_step_once(rt) ==
    SnnRuntimePlus_step_once_with_budgets(rt, StepBudgets_default)

(***************************************************************************)
(* runtime.rs: SnnRuntime::step_once (scan of all edges)                   *)
(***************************************************************************)
\* "for edge in &self.edges", from the i-th edge on
RECURSIVE scan_edges_loop(_, _, _)
scan_edges_loop(st, ev, i) ==
    IF i > Len(st.edges) THEN st
    ELSE
      IF ~(\E s \in 1..Len(st.edges[i].sources) :
              st.edges[i].sources[s] = ev.neuron_id)
      THEN scan_edges_loop(st, ev, i + 1)
      ELSE scan_edges_loop(
             targets_loop([st EXCEPT !.edge_visits = @ + 1,
                                     !.visited = Append(@, i - 1)],
                          ev, i - 1, StepBudgets_default, 1),
             ev, i + 1)

\* "for ev in &events", from the j-th popped event on
RECURSIVE scan_events_loop(_, _, _)
scan_events_loop(st, events, j) ==
    IF j > Len(events) THEN st
    ELSE scan_events_loop(scan_edges_loop(st, events[j], 1), events, j + 1)

SnnRuntime_step_once(rt) ==
    LET nx == TimeWheel_next(rt.inner.queue)
        st == scan_events_loop(LoopStart(rt.inner, nx.queue), nx.events, 1)
    IN  StepResult("core", rt, StepBudgets_default, nx.events, st)

\* SnnRuntimePlus::run_until: "while current_time <= until { step_once() }";
\* log is the history of the last step taken, n the number of steps taken
RECURSIVE run_until_loop(_, _, _, _)
run_until_loop(rt, until, log, n) ==
    IF rt.inner.queue.current_time <= until
    THEN LET r == SnnRuntimePlus_step_once(rt)
         IN  run_until_loop(r.rt, until, r.log, n + 1)
    ELSE [rt |-> rt, log |-> log, steps |-> n]

\* the last tick is left out
MutRunTicksExclusive(current_time, ticks) ==
    u64_saturating_add(current_time, ticks) - 1

\* SnnRuntimePlus::run_ticks: "let until = current_time.saturating_add(ticks)"
run_ticks_until(current_time, ticks) ==
    u64_saturating_add(current_time, ticks)

(***************************************************************************)
(* plasticity.rs: Q16.16 helpers and QuantizedStdp                         *)
(* fx_mul is ((a as i64 * b as i64) >> FRAC_BITS) as i32: the product is   *)
(* formed byte by byte on the two's-complement digits of the sign-extended *)
(* operands, shifted right by 16 bits and cut to its low 32 bits.          *)
(***************************************************************************)
FRAC_BITS == 16
ONE == 2 ^ FRAC_BITS

\* (x * (ONE as f32)) as i32
fx_from_f32(x) ==
    LET p == x.num * ONE
        q == IF p >= 0 THEN p \div x.den ELSE -((-p) \div x.den)
    IN  IF q > I32_MAX THEN I32_MAX ELSE IF q < I32_MIN THEN I32_MIN ELSE q

\* the i-th byte of "x as i64", least significant first
Byte(x, i) ==
    IF i <= 3 THEN (x \div (256 ^ i)) % 256
    ELSE IF x < 0 THEN 255 ELSE 0

\* the sum of the digit products of weight 256^k, from digit i of a on
RECURSIVE ColumnSum(_, _, _, _)
ColumnSum(a, b, k, i) ==
    IF i > k THEN 0
    ELSE Byte(a, i) * Byte(b, k - i) + ColumnSum(a, b, k, i + 1)

\* column k of the product with the carry of the columns below it
RECURSIVE ColumnTotal(_, _, _)
ColumnTotal(a, b, k) ==
    ColumnSum(a, b, k, 0)
        + (IF k = 0 THEN 0 ELSE ColumnTotal(a, b, k - 1) \div 256)

i64_mul_byte(a, b, k) == ColumnTotal(a, b, k) % 256

fx_mul(a, b) ==
    LET top == i64_mul_byte(a, b, 5)
    IN  (IF top >= 128 THEN top - 256 ELSE top) * 16777216
            + i64_mul_byte(a, b, 4) * 65536
            + i64_mul_byte(a, b, 3) * 256
            + i64_mul_byte(a, b, 2)

fx_add_sat(a, b) == i32_saturating_add(a, b)

\* a.saturating_sub(b)
fx_sub_sat(a, b) ==
    IF b < 0 /\ a > I32_MAX + b THEN I32_MAX
    ELSE IF b > 0 /\ a < I32_MIN + b THEN I32_MIN
    ELSE a - b

QuantizedStdp_new(a_plus, a_minus, alpha_pre, alpha_post, w_min, w_max) ==
    [a_plus |-> fx_from_f32(a_plus), a_minus |-> fx_from_f32(a_minus),
     alpha_pre |-> fx_from_f32(alpha_pre),
     alpha_post |-> fx_from_f32(alpha_post),
     w_min |-> fx_from_f32(w_min), w_max |-> fx_from_f32(w_max),
     pre_trace |-> <<>>, post_trace |-> <<>>]

QuantizedStdp_with_defaults ==
    QuantizedStdp_new(F32(1, 100), F32(12, 1000), F32(96, 100), F32(96, 100),
                      F32(0, 1), F32(1, 1))

\* Vec::resize(need, 0), when the vector is shorter than need
resize_trace(trace, need) ==
    IF Len(trace) < need
    THEN trace \o [i \in 1..(need - Len(trace)) |-> 0]
    ELSE trace

ensure_neuron(p, id) ==
    [p EXCEPT !.pre_trace = resize_trace(@, id + 1),
              !.post_trace = resize_trace(@, id + 1)]

QuantizedStdp_traces(p, id) ==
    [pre |-> IF id < Len(p.pre_trace) THEN p.pre_trace[id + 1] ELSE 0,
     post |-> IF id < Len(p.post_trace) THEN p.post_trace[id + 1] ELSE 0]

QuantizedStdp_decay(p) ==
    [p EXCEPT
       !.pre_trace = [i \in 1..Len(@) |-> fx_mul(@[i], p.alpha_pre)],
       !.post_trace = [i \in 1..Len(@) |-> fx_mul(@[i], p.alpha_post)]]

\* the increment of a trace wraps around instead of saturating
MutPreSpikeWrapping(p, pre) ==
    LET q == ensure_neuron(p, pre)
        tr == q.pre_trace[pre + 1]
    IN  [q EXCEPT !.pre_trace[pre + 1] =
            IF tr > I32_MAX - ONE
            THEN ((tr - I32_MAX) + (ONE - 1)) + I32_MIN
            ELSE tr + ONE]

QuantizedStdp_on_pre_spike(p, pre) ==
    LET q == ensure_neuron(p, pre)
    IN  [q EXCEPT !.pre_trace[pre + 1] = fx_add_sat(@, ONE)]

QuantizedStdp_on_post_spike(p, post) ==
    LET q == ensure_neuron(p, post)
    IN  [q EXCEPT !.post_trace[post + 1] = fx_add_sat(@, ONE)]

\* the upper clamp is left out
MutApplyEdgeNoUpperClamp(p, pre, post, weight) ==
    LET q == ensure_neuron(ensure_neuron(p, pre), post)
        ltp == fx_mul(q.a_plus, q.pre_trace[pre + 1])
        ltd == fx_mul(q.a_minus, q.post_trace[post + 1])
        w1 == fx_sub_sat(fx_add_sat(weight, ltp), ltd)
    IN  [rule |-> q, weight |-> IF w1 < q.w_min THEN q.w_min ELSE w1]

\* QuantizedStdp::apply_edge: the rule afterwards, and the weight written
QuantizedStdp_apply_edge(p, pre, post, weight) ==
    LET q == ensure_neuron(ensure_neuron(p, pre), post)
        pre_tr == q.pre_trace[pre + 1]
        post_tr == q.post_trace[post + 1]
        ltp == fx_mul(q.a_plus, pre_tr)
        ltd == fx_mul(q.a_minus, post_tr)
        w1 == fx_sub_sat(fx_add_sat(weight, ltp), ltd)
        w2 == IF w1 < q.w_min THEN q.w_min ELSE w1
        w3 == IF w2 > q.w_max THEN q.w_max ELSE w2
    IN  [rule |-> q, weight |-> w3]

(***************************************************************************)
(* runtime_plus.rs built with feature "plasticity":                        *)
(* step_once_with_budgets with the cfg(feature = "plasticity") blocks.     *)
(* The loop state carries self.plasticity (an Option of the rule) and      *)
(* hooks, the history of the calls the step makes on the wheel, the        *)
(* neurons and the rule, in the order the code makes them.                 *)
(***************************************************************************)
\* one entry of the call history
Hook(name, a, b) == [hook |-> name, a |-> a, b |-> b]

\* apply_edge is called before on_post_spike
MutPostSpikeHooksApplyFirst(st, ev, eid, tgt) ==
    IF ~st.plasticity.some THEN st
    ELSE
      LET r == QuantizedStdp_apply_edge(st.plasticity.v, ev.neuron_id, tgt,
                                        st.edges[eid + 1].weight)
          p1 == QuantizedStdp_on_post_spike(r.rule, tgt)
      IN  [st EXCEPT
             !.plasticity = Some(p1),
             !.edges[eid + 1].weight = r.weight,
             !.hooks = @ \o <<Hook("apply_edge", ev.neuron_id, tgt),
                              Hook("on_post_spike", tgt,
                                   deliver_time(ev, st.edges[eid + 1]))>>]

\* "if let Some(p) = self.plasticity.as_mut() { p.on_post_spike(tgt,
\* deliver_time); if let Some(edge_mut) = self.inner.edges.get_mut(eid)
\* { p.apply_edge(ev.neuron_id, tgt, &mut edge_mut.weight); } }"
post_spike_hooks(st, ev, eid, tgt) ==
    IF ~st.plasticity.some THEN st
    ELSE
      LET p1 == QuantizedStdp_on_post_spike(st.plasticity.v, tgt)
          r == QuantizedStdp_apply_edge(p1, ev.neuron_id, tgt,
                                        st.edges[eid + 1].weight)
      IN  [st EXCEPT
             !.plasticity = Some(r.rule),
             !.edges[eid + 1].weight = r.weight,
             !.hooks = @ \o <<Hook("on_post_spike", tgt,
                                   deliver_time(ev, st.edges[eid + 1])),
                              Hook("apply_edge", ev.neuron_id, tgt)>>]

\* "for &tgt in &edge.targets", from the k-th target on; edge is a reference
\* into self.inner.edges, so a weight written by apply_edge is the weight
\* the next target is injected with
RECURSIVE feature_targets_loop(_, _, _, _, _)
feature_targets_loop(st, ev, eid, budgets, k) ==
    LET edge == st.edges[eid + 1] IN
    IF st.brk \/ k > Len(edge.targets) THEN st
    ELSE
      LET tgt == edge.targets[k] IN
      IF tgt >= Len(st.neurons)
      THEN feature_targets_loop(st, ev, eid, budgets, k + 1)
      ELSE
        LET r == Neuron_inject(st.neurons[tgt + 1], edge.weight,
                               deliver_time(ev, edge))
            st1 == [st EXCEPT
                      !.neurons[tgt + 1] = r.neuron,
                      !.injected = Append(@, [tgt |-> tgt, fired |-> r.fired]),
                      !.delivered = Append(@, [input |-> edge.weight,
                                               time |-> deliver_time(ev, edge)]),
                      !.hooks = Append(@, Hook("inject", tgt,
                                               deliver_time(ev, edge)))]
        IN
        IF ~r.fired THEN feature_targets_loop(st1, ev, eid, budgets, k + 1)
        ELSE
          IF spike_budget_reached(budgets, st1.spikes_scheduled)
          THEN [st1 EXCEPT !.brk = TRUE]
          ELSE feature_targets_loop(
                 post_spike_hooks(
                   [st1 EXCEPT
                      !.queue = TimeWheel_schedule(
                                    @, SpikeEvent(tgt, deliver_time(ev, edge))),
                      !.spikes_scheduled = @ + 1,
                      !.hooks = Append(@, Hook("schedule", tgt,
                                               deliver_time(ev, edge)))],
                   ev, eid, tgt),
                 ev, eid, budgets, k + 1)

\* "for &eid in edge_ids", from the i-th entry of the adjacency row on
RECURSIVE feature_edges_loop(_, _, _, _, _)
feature_edges_loop(st, ev, edge_ids, budgets, i) ==
    IF st.brk \/ i > Len(edge_ids) THEN st
    ELSE
      LET eid == edge_ids[i] IN
      IF edge_budget_reached(budgets, st.edge_visits)
      THEN [st EXCEPT !.brk = TRUE]
      ELSE
        LET st1 == [st EXCEPT !.edge_visits = @ + 1,
                              !.visited = Append(@, eid)]
        IN
        IF eid >= Len(st1.edges)
        THEN feature_edges_loop(st1, ev, edge_ids, budgets, i + 1)
        ELSE feature_edges_loop(feature_targets_loop(st1, ev, eid, budgets, 1),
                                ev, edge_ids, budgets, i + 1)

\* "if let Some(p) = self.plasticity.as_mut() { p.on_pre_spike(ev.neuron_id,
\* ev.time); }"
pre_spike_hook(st, ev) ==
    IF ~st.plasticity.some THEN st
    ELSE [st EXCEPT
            !.plasticity = Some(QuantizedStdp_on_pre_spike(@.v, ev.neuron_id)),
            !.hooks = Append(@, Hook("on_pre_spike", ev.neuron_id, ev.time))]

\* "'events_loop: for ev in &events", from the j-th popped event on
RECURSIVE feature_events_loop(_, _, _, _, _)
feature_events_loop(st, events, source_to_edges, budgets, j) ==
    IF st.brk \/ j > Len(events) THEN st
    ELSE
      LET ev == events[j]
          src == ev.neuron_id
          st1 == pre_spike_hook(st, ev)
      IN
      IF src >= Len(source_to_edges)
      THEN feature_events_loop(st1, events, source_to_edges, budgets, j + 1)
      ELSE feature_events_loop(
             feature_edges_loop(st1, ev, source_to_edges[src + 1], budgets, 1),
             events, source_to_edges, budgets, j + 1)

\* "if let Some(p) = self.plasticity.as_mut() { p.decay(); }"
decay_hook(plasticity) ==
    IF plasticity.some
    THEN [plasticity |-> Some(QuantizedStdp_decay(plasticity.v)),
          hooks |-> <<Hook("decay", 0, 0)>>]
    ELSE [plasticity |-> plasticity, hooks |-> <<>>]

\* SnnRuntimePlus::step_once_with_budgets, feature "plasticity": the result
\* of the build without the feature, with self.plasticity afterwards and
\* the call history
feature_step_once_with_budgets(rt, plasticity, budgets) ==
    LET d == decay_hook(plasticity)
        nx == TimeWheel_next(rt.inner.queue)
        st == feature_events_loop(
                LoopStart(rt.inner, nx.queue)
                  @@ [plasticity |-> d.plasticity,
                      hooks |-> Append(d.hooks,
                                       Hook("next", Len(nx.events), 0))],
                nx.events, rt.source_to_edges, budgets, 1)
    IN  StepResult("plus", rt, budgets, nx.events, st)
          @@ [plasticity |-> st.plasticity, hooks |-> st.hooks]

(***************************************************************************)
(* Networks                                                                *)
(***************************************************************************)
\* the seed of CoreBackend::new: rt.queue().schedule(SpikeEvent { n0, 0 })
Seeded(r) ==
    [r EXCEPT !.inner.queue = TimeWheel_schedule(@, SpikeEvent(0, 0))]

\* backend.rs, CoreBackend::new: the 3-neuron demo network with its seed;
\* refractory is the value stored into n1.refractory_until through
\* neurons_mut() before the first step (0 leaves the neuron as built)
CoreBackend_new(refractory) ==
    LET r0 == SnnRuntimePlus_new(32)
        r1 == SnnRuntimePlus_add_neuron(r0, F32(4, 4))
        r2 == SnnRuntimePlus_add_neuron(r1, F32(4, 4))
        r3 == SnnRuntimePlus_add_neuron(r2, F32(4, 4))
        r4 == SnnRuntimePlus_add_edge(r3, <<0>>, <<1, 2>>, F32(4, 4), 1)
        r5 == Seeded(r4)
    IN  [r5 EXCEPT !.inner.neurons[2].refractory_until = refractory]

\* n0 and FanOutTargets targets of threshold 1.0, one edge {n0} -> {ni} of
\* the given weight and delay 1 per target, and the seed (n0, 0)
FanOutTargets == 10

RECURSIVE FanOutEdges(_, _, _)
FanOutEdges(rt, weight, i) ==
    IF i > FanOutTargets THEN rt
    ELSE FanOutEdges(SnnRuntimePlus_add_edge(rt, <<0>>, <<i>>, weight, 1),
                     weight, i + 1)

RECURSIVE AddNeurons(_, _, _)
AddNeurons(rt, threshold, n) ==
    IF n = 0 THEN rt
    ELSE AddNeurons(SnnRuntimePlus_add_neuron(rt, threshold), threshold, n - 1)

FanOut(weight) ==
    LET r0 == AddNeurons(SnnRuntimePlus_new(32), F32(4, 4), FanOutTargets + 1)
        r1 == FanOutEdges(r0, weight, 1)
    IN  Seeded(r1)

\* three neurons of threshold 1.0 in a cycle, every delay 1: a two-source
\* edge of weight 0.5, a two-target edge, and a weak edge back to n0 with
\* one target that is no neuron
Mix(W) ==
    LET r0 == AddNeurons(SnnRuntimePlus_new(W), F32(4, 4), 3)
        r1 == SnnRuntimePlus_add_edge(r0, <<0, 1>>, <<2>>, F32(2, 4), 1)
        r2 == SnnRuntimePlus_add_edge(r1, <<0>>, <<1, 2>>, F32(4, 4), 1)
    IN  SnnRuntimePlus_add_edge(r2, <<2>>, <<0, 5>>, F32(1, 4), 1)

\* an edge of delay 0 onto its own source, and an inhibitory edge of delay 2
Zero(W) ==
    LET r0 == SnnRuntimePlus_add_neuron(SnnRuntimePlus_new(W), F32(4, 4))
        r1 == SnnRuntimePlus_add_neuron(r0, F32(2, 4))
        r2 == SnnRuntimePlus_add_edge(r1, <<0>>, <<1, 0>>, F32(2, 4), 0)
    IN  SnnRuntimePlus_add_edge(r2, <<1>>, <<0>>, F32(-1, 4), 2)

\* the networks of the general runs, for every wheel size up to MaxWheel
SmallNetworks ==
    UNION {{Mix(W), Seeded(Mix(W)), Zero(W)} : W \in 1..MaxWheel}

Scenarios ==
    {CoreBackend_new(0), CoreBackend_new(10), FanOut(F32(4, 4)), FanOut(F32(2, 4))}

(***************************************************************************)
(* State                                                                   *)
(***************************************************************************)
VARIABLES
    rt,      \* the SnnRuntimePlus value
    seeds,   \* history: the events scheduled from outside, as stored
    calls,   \* history: the number of TimeWheel::next calls made
    ops,     \* history: the number of API calls made
    plain,   \* history: every call that popped a slot was step_once()
    last,    \* history: the log of the step just made ("none" otherwise)
    stdp,    \* a QuantizedStdp rule held by the caller
    edge_weight,  \* the edge weight the caller hands to apply_edge
    running  \* the run_until call under way, if any, entered step by step

vars == <<rt, seeds, calls, ops, plain, last, stdp, edge_weight, running>>

NoStep ==
    [kind |-> "none", budgets |-> StepBudgets_default, before |-> <<>>,
     events |-> <<>>, edge_visits |-> 0, spikes_scheduled |-> 0,
     tripped |-> FALSE, visited |-> <<>>, injected |-> <<>>,
     delivered |-> <<>>]

\* no run_until call is under way
NotRunning ==
    [active |-> FALSE, until |-> 0, start |-> 0, ticks |-> None, steps |-> 0,
     odd |-> FALSE]

AllEvents(q) ==
    UNION {{q.buckets[k][i] : i \in 1..Len(q.buckets[k])} : k \in DOMAIN q.buckets}

InitWith(nets) ==
    /\ rt \in nets
    /\ seeds = rt.inner.queue.buckets[0]
    /\ calls = 0
    /\ ops = 0
    /\ plain = TRUE
    /\ last = NoStep
    /\ stdp = QuantizedStdp_with_defaults
    /\ edge_weight = 0
    /\ running = NotRunning

Init == InitWith(SmallNetworks)

InitScenario == InitWith(Scenarios)

(***************************************************************************)
(* Operations                                                              *)
(***************************************************************************)
\* the budgets a caller passes
BudgetChoices ==
    {StepBudgets(None, None),
     StepBudgets(Some(0), None), StepBudgets(Some(1), None),
     StepBudgets(Some(2), None), StepBudgets(Some(3), None),
     StepBudgets(None, Some(0)), StepBudgets(None, Some(1)),
     StepBudgets(None, Some(2)), StepBudgets(Some(2), Some(1))}

\* the neurons a caller seeds
SeedNeurons == {0, 1}

\* the times a caller seeds: the tick before current_time, current_time,
\* the next tick, the last tick of the revolution and the first aliased one
SeedTimes(q) ==
    {t \in {q.current_time - 1, q.current_time, q.current_time + 1,
            q.current_time + q.wheel_size - 1,
            q.current_time + q.wheel_size} : t >= 0 /\ t <= U64Max}

\* rt.queue().schedule(SpikeEvent { neuron_id, time })
Schedule(neuron_id, time) ==
    /\ ops < MaxOps
    /\ Len(seeds) < MaxSeeds
    /\ rt' = [rt EXCEPT !.inner.queue =
                 TimeWheel_schedule(@, SpikeEvent(neuron_id, time))]
    /\ seeds' = Append(seeds, Stamp(rt.inner.queue, SpikeEvent(neuron_id, time)))
    /\ ops' = ops + 1
    /\ last' = NoStep
    /\ UNCHANGED <<calls, plain, stdp, edge_weight, running>>

\* rt.step_once_with_budgets(budgets)
StepOnceWithBudgets(budgets) ==
    /\ ops < MaxOps
    /\ \E r \in {SnnRuntimePlus_step_once_with_budgets(rt, budgets)} :
          /\ rt' = r.rt
          /\ last' = r.log
    /\ calls' = calls + 1
    /\ ops' = ops + 1
    /\ plain' = (plain /\ budgets = StepBudgets_default)
    /\ UNCHANGED <<seeds, stdp, edge_weight, running>>

\* rt.step_once()
StepOnce ==
    /\ ops < MaxOps
    /\ \E r \in {SnnRuntimePlus_step_once(rt)} :
          /\ rt' = r.rt
          /\ last' = r.log
    /\ calls' = calls + 1
    /\ ops' = ops + 1
    /\ UNCHANGED <<seeds, plain, stdp, edge_weight, running>>

\* rt.inner.step_once()
CoreStepOnce ==
    /\ ops < MaxOps
    /\ \E r \in {SnnRuntime_step_once(rt)} :
          /\ rt' = r.rt
          /\ last' = r.log
    /\ calls' = calls + 1
    /\ ops' = ops + 1
    /\ plain' = FALSE
    /\ UNCHANGED <<seeds, stdp, edge_weight, running>>

\* rt.queue().next()
QueueNext ==
    /\ ops < MaxOps
    /\ \E nx \in {TimeWheel_next(rt.inner.queue)} :
          /\ rt' = [rt EXCEPT !.inner.queue = nx.queue]
          /\ last' = [NoStep EXCEPT !.kind = "next", !.before = rt,
                                    !.events = nx.events]
    /\ calls' = calls + 1
    /\ ops' = ops + 1
    /\ plain' = FALSE
    /\ UNCHANGED <<seeds, stdp, edge_weight, running>>

\* rt.run_until(until), for the values of until at which the loop ends
RunUntil(until) ==
    /\ ops < MaxOps
    /\ until < U64Max
    /\ \E r \in {run_until_loop(rt, until, NoStep, 0)} :
          /\ rt' = r.rt
          /\ last' = r.log
          /\ calls' = calls + r.steps
    /\ ops' = ops + 1
    /\ UNCHANGED <<seeds, plain, stdp, edge_weight, running>>

\* rt.run_ticks(ticks): run_until(current_time.saturating_add(ticks)),
\* for the values at which the loop ends
RunTicks(ticks) ==
    RunUntil(u64_saturating_add(rt.inner.queue.current_time, ticks))

Next ==
    \/ \E n \in SeedNeurons, t \in SeedTimes(rt.inner.queue) : Schedule(n, t)
    \/ \E budgets \in BudgetChoices : StepOnceWithBudgets(budgets)
    \/ StepOnce
    \/ CoreStepOnce
    \/ QueueNext
    \/ \E until \in {U64Max - 1} : RunUntil(until)
    \/ \E ticks \in {2} : RunTicks(ticks)

Spec == Init /\ [][Next]_vars

SpecScenario == InitScenario /\ [][Next]_vars

(***************************************************************************)
(* Vocabulary of the properties                                            *)
(***************************************************************************)
queue == rt.inner.queue

\* the runtime and the wheel as they were when the step just made began
before == last.before

queue_before == last.before.inner.queue

Stepped == last.kind # "none"

Range(seq) == {seq[i] : i \in 1..Len(seq)}

\* the event was scheduled for a tick of the revolution then under way
InWindow(e, W) == e.at <= e.time /\ e.time < e.at + W

\* the content of the wheel, history fields dropped
PlainBuckets(q) == [k \in DOMAIN q.buckets |-> PlainSeq(q.buckets[k])]

\* the network as built: all but the membranes and the wheel content
Built(r) ==
    [edges |-> r.inner.edges,
     source_to_edges |-> r.source_to_edges,
     wheel_size |-> r.inner.queue.wheel_size,
     neurons |-> [i \in 1..Len(r.inner.neurons) |->
                    [r.inner.neurons[i] EXCEPT !.membrane = 0]]]

(***************************************************************************)
(* C1.  In every reachable state of the wheel, every event stored in       *)
(* bucket k has time mod W = k.                                            *)
(***************************************************************************)
C1_SlotOfEveryEvent ==
    \A k \in DOMAIN queue.buckets :
        \A i \in 1..Len(queue.buckets[k]) :
            queue.buckets[k][i].time % queue.wheel_size = k

\* after a step, the wheel holds an event induced by the step whose time
\* has wrapped around the wheel into a bucket other than 0
C1_Witness ==
    /\ Stepped
    /\ \E k \in DOMAIN queue.buckets :
          \E i \in 1..Len(queue.buckets[k]) :
              /\ k # 0
              /\ queue.buckets[k][i].time >= queue.wheel_size
              /\ queue.buckets[k][i] \notin Range(seeds)

(***************************************************************************)
(* C2.  Every step (any budgets, tripped or not, empty slot or not) moves  *)
(* current_time up by exactly 1, saturating at the largest u64: after n    *)
(* calls current_time = min(0 + n, MAX), and it never decreases.           *)
(***************************************************************************)
C2_TickPerCall ==
    /\ queue.current_time = (IF calls <= U64Max THEN calls ELSE U64Max)
    /\ Stepped =>
          /\ queue.current_time >= queue_before.current_time
          /\ queue.current_time =
                (IF queue_before.current_time = U64Max
                 THEN U64Max ELSE queue_before.current_time + 1)

\* a budgeted step made when current_time was already saturated
C2_Witness ==
    /\ last.kind = "plus"
    /\ last.budgets # StepBudgets_default
    /\ queue_before.current_time = U64Max
    /\ queue.current_time = U64Max
    /\ calls > U64Max

(***************************************************************************)
(* C3.  An event scheduled with current_time <= t < current_time + W is    *)
(* returned by the call that starts with current_time = t, not by an       *)
(* earlier call and not later: while t > current_time it is still in the   *)
(* wheel, once t < current_time it is not, and every such event a call     *)
(* returns has t equal to the current_time the call started with (so two   *)
(* such events with different times come from different calls, the earlier *)
(* time first).                                                            *)
(***************************************************************************)
C3_ReturnedAtItsTick ==
    /\ \A e \in AllEvents(queue) :
          InWindow(e, queue.wheel_size) => e.time >= queue.current_time
    /\ \A i \in 1..Len(seeds) :
          InWindow(seeds[i], queue.wheel_size)
              /\ seeds[i].time > queue.current_time
          => seeds[i] \in AllEvents(queue)
    /\ Stepped =>
          \A i \in 1..Len(last.events) :
              InWindow(last.events[i], queue.wheel_size)
              => last.events[i].time = queue_before.current_time

\* a call returns an event that was scheduled for the last tick of the
\* revolution and waited W - 1 calls, W > 1
C3_Witness ==
    /\ Stepped
    /\ queue.wheel_size > 1
    /\ \E i \in 1..Len(last.events) :
          /\ last.events[i].time = last.events[i].at + queue.wheel_size - 1
          /\ last.events[i].time = queue_before.current_time

(***************************************************************************)
(* C4.  If every edge delay d has d >= 1 and W > d + 1, and every seeded   *)
(* event had its time in [current_time, current_time + W) when scheduled,  *)
(* then every event a step returns has time equal to the current_time the  *)
(* step started with.                                                      *)
(***************************************************************************)
DelaysFitWheel(r) ==
    \A i \in 1..Len(r.inner.edges) :
        /\ r.inner.edges[i].delay >= 1
        /\ r.inner.queue.wheel_size > r.inner.edges[i].delay + 1

SeedsInWindow ==
    \A i \in 1..Len(seeds) : InWindow(seeds[i], queue.wheel_size)

C4_OnlyTheTickPopped ==
    (DelaysFitWheel(rt) /\ SeedsInWindow /\ Stepped)
    => \A i \in 1..Len(last.events) :
          last.events[i].time = queue_before.current_time

\* under the premises, a step returns a spike that an earlier step induced
\* and whose time has wrapped around the wheel
C4_Witness ==
    /\ DelaysFitWheel(rt) /\ SeedsInWindow
    /\ last.kind \in {"plus", "core"}
    /\ \E i \in 1..Len(last.events) :
          /\ last.events[i] \notin Range(seeds)
          /\ last.events[i].time >= queue.wheel_size
          /\ last.events[i].time = queue_before.current_time

(***************************************************************************)
(* C5.  The events one call returns are in the order in which they were    *)
(* scheduled into the slot, whoever scheduled them (a seed or a step).     *)
(***************************************************************************)
C5_FifoWithinSlot ==
    Stepped =>
        /\ last.events =
              queue_before.buckets[queue_before.current_time
                                       % queue_before.wheel_size]
        /\ \A i, j \in 1..Len(last.events) :
              i < j => last.events[i].seq < last.events[j].seq

\* a call returns a seed behind an induced spike scheduled before it, and
\* the seed has the earlier time
C5_Witness ==
    /\ Stepped
    /\ \E i, j \in 1..Len(last.events) :
          /\ i < j
          /\ last.events[i] \notin Range(seeds)
          /\ last.events[j] \in Range(seeds)
          /\ last.events[j].time < last.events[i].time

(***************************************************************************)
(* Vocabulary of the scenarios                                             *)
(***************************************************************************)
\* the seed (n0, t = 0) of a scenario, as the wheel stores it
Seed0 == [neuron_id |-> 0, time |-> 0, seq |-> 0, at |-> 0]

\* the run so far: the scenario's network, seeded with (n0, 0) and nothing
\* else, and advanced by step_once() calls only
ScenarioRun(network) ==
    /\ Built(rt) = Built(network)
    /\ seeds = <<Seed0>>
    /\ plain

\* the first call on the scenario's network, seeded with (n0, 0) only, is
\* step_once_with_budgets(budgets)
FirstStepWith(network, budgets) ==
    /\ Built(rt) = Built(network)
    /\ seeds = <<Seed0>>
    /\ calls = 1
    /\ last.kind = "plus"
    /\ last.budgets = budgets

Targets(injected) == [i \in 1..Len(injected) |-> injected[i].tgt]

FiredCount(injected) ==
    Cardinality({i \in 1..Len(injected) : injected[i].fired})

\* the slot the step just made popped, as it was before the step
SlotIndexBefore == queue_before.current_time % queue_before.wheel_size

SlotBefore == queue_before.buckets[SlotIndexBefore]

\* the adjacency rows of the popped events, one after the other
RECURSIVE AdjacencyEntries(_, _, _)
AdjacencyEntries(events, source_to_edges, j) ==
    IF j > Len(events) THEN <<>>
    ELSE (IF events[j].neuron_id >= Len(source_to_edges) THEN <<>>
          ELSE source_to_edges[events[j].neuron_id + 1])
         \o AdjacencyEntries(events, source_to_edges, j + 1)

(***************************************************************************)
(* C6.  Single chain (W = 32, n0, n1, n2 of threshold 1.0, one edge        *)
(* {n0} -> {n1, n2} of weight 1.0 and delay 1, seed (n0, 0)): the first    *)
(* step_once returns [(n0,0)] and leaves current_time = 1 and the wheel    *)
(* holding exactly (n1,1) and (n2,1); the second returns [(n1,1), (n2,1)]  *)
(* in that order and leaves current_time = 2.                              *)
(***************************************************************************)
C6_SingleChain ==
    (ScenarioRun(CoreBackend_new(0)) /\ last.kind = "plus") =>
        /\ calls = 1 =>
              /\ PlainSeq(last.events) = <<SpikeEvent(0, 0)>>
              /\ queue.current_time = 1
              /\ PlainBuckets(queue) =
                    [k \in 0..31 |->
                        IF k = 1 THEN <<SpikeEvent(1, 1), SpikeEvent(2, 1)>>
                        ELSE <<>>]
        /\ calls = 2 =>
              /\ PlainSeq(last.events) = <<SpikeEvent(1, 1), SpikeEvent(2, 1)>>
              /\ queue.current_time = 2

\* the second step of the scenario has been made
C6_Witness ==
    /\ ScenarioRun(CoreBackend_new(0))
    /\ last.kind = "plus"
    /\ calls = 2
    /\ Len(last.events) = 2

(***************************************************************************)
(* C7.  Refractory suppression (the single chain with                      *)
(* n1.refractory_until = 10).                                              *)
(* As claimed: the injection into n1 at deliver time 1 does not fire n1,   *)
(* and only (n2,1) is returned on the third step_once call.                *)
(***************************************************************************)
C7_AsClaimed ==
    (ScenarioRun(CoreBackend_new(10)) /\ last.kind = "plus") =>
        /\ calls = 1 =>
              last.injected = <<[tgt |-> 1, fired |-> FALSE],
                                [tgt |-> 2, fired |-> TRUE]>>
        /\ calls = 3 => PlainSeq(last.events) = <<SpikeEvent(2, 1)>>

(***************************************************************************)
(* C7, amended.  The injection into n1 at deliver time 1 is made by the    *)
(* first step_once call, does not fire n1 and leaves its membrane at 0;    *)
(* only (n2,1) is scheduled, and it is returned, alone, by the second      *)
(* step_once call; the third call returns nothing.                         *)
(***************************************************************************)
C7_RefractorySuppression ==
    (ScenarioRun(CoreBackend_new(10)) /\ last.kind = "plus") =>
        /\ calls = 1 =>
              /\ last.injected = <<[tgt |-> 1, fired |-> FALSE],
                                   [tgt |-> 2, fired |-> TRUE]>>
              /\ rt.inner.neurons[2].membrane = 0
              /\ PlainSeq(last.events) = <<SpikeEvent(0, 0)>>
              /\ PlainBuckets(queue) =
                    [k \in 0..31 |->
                        IF k = 1 THEN <<SpikeEvent(2, 1)>> ELSE <<>>]
        /\ calls = 2 => PlainSeq(last.events) = <<SpikeEvent(2, 1)>>
        /\ calls = 3 => last.events = <<>>

\* the third step of the scenario has been made
C7_Witness ==
    /\ ScenarioRun(CoreBackend_new(10))
    /\ last.kind = "plus"
    /\ calls = 3
    /\ rt.inner.neurons[2].membrane = 0

C9_FiredTargetsEqualBudget ==
    FirstStepWith(FanOut(F32(4, 4)), StepBudgets(None, Some(2))) =>
        /\ Cardinality(AllEvents(queue)) = 2
        /\ FiredCount(last.injected) = 2

(***************************************************************************)
(* C10.  With max_spikes_scheduled = k one step makes at most k schedule   *)
(* calls, so the wheel afterwards holds at most k events more than were    *)
(* left after the pop; with k = 0 the step pops and returns the current    *)
(* slot, adds nothing to the wheel, and still injects into targets: the    *)
(* inject calls it makes are those of the same step without a spike        *)
(* budget, up to and including the first one that fires.                   *)
(***************************************************************************)
\* the inject calls up to and including the first that returned true
UpToFirstFired(injected) ==
    LET hits == {i \in 1..Len(injected) : injected[i].fired}
    IN  IF hits = {} THEN injected
        ELSE SubSeq(injected, 1,
                    CHOOSE i \in hits : \A j \in hits : i <= j)

C10_SpikeBudget ==
    (last.kind = "plus" /\ last.budgets.max_spikes_scheduled.some) =>
        LET k == last.budgets.max_spikes_scheduled.v
            unbudgeted ==
                SnnRuntimePlus_step_once_with_budgets(
                    before, StepBudgets(last.budgets.max_edge_visits, None)).log
        IN  /\ queue.scheduled - queue_before.scheduled <= k
            /\ last.spikes_scheduled = queue.scheduled - queue_before.scheduled
            /\ Cardinality(AllEvents(queue))
                  <= Cardinality(AllEvents(queue_before)) - Len(last.events) + k
            /\ k = 0 =>
                  /\ last.events = SlotBefore
                  /\ queue.buckets =
                        [queue_before.buckets EXCEPT ![SlotIndexBefore] = <<>>]
                  /\ last.injected = UpToFirstFired(unbudgeted.injected)

\* a step with k = 0 that injected into a target that did not fire (its
\* membrane rose), then into one that fired, and scheduled nothing
C10_Witness ==
    /\ last.kind = "plus"
    /\ last.budgets = StepBudgets(None, Some(0))
    /\ Len(last.injected) = 2
    /\ ~last.injected[1].fired
    /\ last.injected[2].fired
    /\ rt.inner.neurons[last.injected[1].tgt + 1].membrane
          > before.inner.neurons[last.injected[1].tgt + 1].membrane
    /\ queue.scheduled = queue_before.scheduled

(***************************************************************************)
(* C11.  When a budget trips during a step, the injections and schedulings *)
(* already made stay committed: the neurons afterwards are the neurons     *)
(* before with the inject calls of the step applied, and the wheel is the  *)
(* popped wheel with the spikes of the step scheduled.  What was skipped   *)
(* is not retried: the popped events are not back in the wheel, and a      *)
(* following unbudgeted step_once pops only the slot of its own tick,      *)
(* holding none of them, visits exactly the adjacency entries of the       *)
(* events it popped itself and injects only into the targets of those.     *)
(***************************************************************************)
\* the neurons after the logged inject calls, from the i-th call on
RECURSIVE ReplayInjects(_, _, _, _)
ReplayInjects(neurons, injected, delivered, i) ==
    IF i > Len(injected) THEN neurons
    ELSE LET t == injected[i].tgt
             r == Neuron_inject(neurons[t + 1], delivered[i].input,
                                delivered[i].time)
         IN  ReplayInjects([neurons EXCEPT ![t + 1] = r.neuron],
                           injected, delivered, i + 1)

\* the wheel after scheduling the spikes of the first n logged inject calls
\* that fired, from the i-th call on
RECURSIVE ReplaySchedules(_, _, _, _, _)
ReplaySchedules(q, injected, delivered, i, n) ==
    IF i > Len(injected) \/ n = 0 THEN q
    ELSE IF injected[i].fired
         THEN ReplaySchedules(
                  TimeWheel_schedule(
                      q, SpikeEvent(injected[i].tgt, delivered[i].time)),
                  injected, delivered, i + 1, n - 1)
         ELSE ReplaySchedules(q, injected, delivered, i + 1, n)

\* the targets that are neurons of the visited edges, one edge after the other
RECURSIVE InjectTargets(_, _, _, _)
InjectTargets(visited, edges, n_neurons, i) ==
    IF i > Len(visited) THEN <<>>
    ELSE (IF visited[i] >= Len(edges) THEN <<>>
          ELSE SelectSeq(edges[visited[i] + 1].targets,
                         LAMBDA t : t < n_neurons))
         \o InjectTargets(visited, edges, n_neurons, i + 1)

\* the state after the step just made is the state before it with the
\* step's logged calls applied, no more and no less
Committed ==
    /\ rt.inner.neurons =
          ReplayInjects(before.inner.neurons, last.injected, last.delivered, 1)
    /\ queue =
          ReplaySchedules(TimeWheel_next(queue_before).queue, last.injected,
                          last.delivered, 1, last.spikes_scheduled)
    /\ rt.inner.edges = before.inner.edges
    /\ rt.source_to_edges = before.source_to_edges

C11_Step ==
    /\ (last'.kind = "plus" /\ last'.tripped) => Committed'
    /\ (last.kind = "plus" /\ last.tripped) =>
          /\ Range(last.events) \cap AllEvents(queue) = {}
          /\ (last'.kind = "plus" /\ last'.budgets = StepBudgets_default
                  /\ calls' = calls + 1) =>
                /\ last'.events =
                      queue.buckets[queue.current_time % queue.wheel_size]
                /\ Range(last.events)
                      \cap (Range(last'.events) \cup AllEvents(queue')) = {}
                /\ last'.visited =
                      AdjacencyEntries(last'.events, rt.source_to_edges, 1)
                /\ Targets(last'.injected) =
                      InjectTargets(last'.visited, rt.inner.edges,
                                    Len(rt.inner.neurons), 1)

C11_NoRetryAfterTrip == [][C11_Step]_vars

\* the unbudgeted step that follows a tripped first step on the cyclic
\* network: the injection of 0.5 into n2 made before the trip is still
\* there, the edges skipped behind it were not delivered, the wheel is empty
C11_Witness ==
    /\ \E W \in 2..MaxWheel : Built(rt) = Built(Mix(W))
    /\ seeds = <<Seed0>>
    /\ calls = 2
    /\ last.kind = "plus"
    /\ last.budgets = StepBudgets_default
    /\ last.events = <<>>
    /\ last.injected = <<>>
    /\ before.inner.neurons[3].membrane = to_fixed(F32(2, 4))
    /\ rt.inner.neurons = before.inner.neurons
    /\ AllEvents(queue) = {}

(***************************************************************************)
(* Building a network call by call                                         *)
(***************************************************************************)
\* the source lists a caller passes to add_edge: every list of at most two
\* of the ids 0, 1, 2 (repeated ids and ids of neurons not yet added too)
SourceLists ==
    {<<>>} \cup {<<a>> : a \in 0..2} \cup {<<a, b>> : a, b \in 0..2}

InitBuild ==
    /\ rt = SnnRuntimePlus_new(4)
    /\ seeds = <<>>
    /\ calls = 0
    /\ ops = 0
    /\ plain = TRUE
    /\ last = NoStep
    /\ stdp = QuantizedStdp_with_defaults
    /\ edge_weight = 0
    /\ running = NotRunning

\* rt.add_neuron(1.0)
AddNeuron ==
    /\ ops < MaxOps
    /\ rt' = SnnRuntimePlus_add_neuron(rt, F32(4, 4))
    /\ ops' = ops + 1
    /\ last' = NoStep
    /\ UNCHANGED <<seeds, calls, plain, stdp, edge_weight, running>>

\* rt.add_edge(sources, vec![0], 1.0, 1)
AddEdge(sources) ==
    /\ ops < MaxOps
    /\ rt' = SnnRuntimePlus_add_edge(rt, sources, <<0>>, F32(4, 4), 1)
    /\ ops' = ops + 1
    /\ last' = NoStep
    /\ UNCHANGED <<seeds, calls, plain, stdp, edge_weight, running>>

NextBuild ==
    \/ AddNeuron
    \/ \E sources \in SourceLists : AddEdge(sources)

SpecBuild == InitBuild /\ [][NextBuild]_vars

(***************************************************************************)
(* C12.  After any sequence of add_neuron and add_edge calls, edge_id is   *)
(* in adjacency[s] if and only if s is in edges[edge_id].sources, and no   *)
(* edge id appears more than once in any adjacency row.                    *)
(***************************************************************************)
\* adjacency[s], empty for an s the index has no row for
AdjacencyRow(r, s) ==
    IF s < Len(r.source_to_edges) THEN r.source_to_edges[s + 1] ELSE <<>>

AdjacencyIffSource ==
    /\ \A s \in 0..(Len(rt.source_to_edges) - 1) :
          \A eid \in Range(AdjacencyRow(rt, s)) :
              /\ eid < Len(rt.inner.edges)
              /\ s \in Range(rt.inner.edges[eid + 1].sources)
    /\ \A i \in 1..Len(rt.inner.edges) :
          /\ rt.inner.edges[i].id = i - 1
          /\ \A s \in Range(rt.inner.edges[i].sources) :
                (i - 1) \in Range(AdjacencyRow(rt, s))

NoDuplicateInRows ==
    \A s \in 0..(Len(rt.source_to_edges) - 1) :
        \A i, j \in 1..Len(AdjacencyRow(rt, s)) :
            i # j => AdjacencyRow(rt, s)[i] # AdjacencyRow(rt, s)[j]

C12_AdjacencyConsistent == AdjacencyIffSource /\ NoDuplicateInRows

(***************************************************************************)
(* A QuantizedStdp rule driven call by call                                *)
(***************************************************************************)
\* the rules a caller constructs: with_defaults(), the rule of
\* test_clamp_bounds, one with w_min above w_max, one with large gains and
\* the smallest positive alpha, and one with alpha above 1.0
Rules ==
    {QuantizedStdp_with_defaults,
     QuantizedStdp_new(F32(1, 1), F32(0, 1), F32(1, 1), F32(1, 1),
                       F32(1, 4), F32(3, 4)),
     QuantizedStdp_new(F32(1, 1), F32(0, 1), F32(1, 1), F32(1, 1),
                       F32(3, 4), F32(1, 4)),
     QuantizedStdp_new(F32(30000, 1), F32(30000, 1), F32(1, 65536), F32(1, 2),
                       F32(-1, 1), F32(1, 1)),
     QuantizedStdp_new(F32(1, 100), F32(12, 1000), F32(2, 1), F32(2, 1),
                       F32(0, 1), F32(1, 1))}

\* the traces the rule starts a run with: none, those after one pre spike of
\* n0, and those after 32767 and more spikes without a decay in between
TraceChoices ==
    {[pre |-> <<>>, post |-> <<>>],
     [pre |-> <<ONE>>, post |-> <<0>>],
     [pre |-> <<32767 * ONE, I32_MAX>>, post |-> <<I32_MAX, ONE>>]}

\* the weights a caller hands to apply_edge
PriorWeights ==
    {0, fx_from_f32(F32(1, 2)), fx_from_f32(F32(7, 10)), I32_MAX, I32_MIN}

StdpNeurons == {0, 1}

InitStdp ==
    /\ rt = SnnRuntimePlus_new(4)
    /\ seeds = <<>>
    /\ calls = 0
    /\ ops = 0
    /\ plain = TRUE
    /\ last = NoStep
    /\ \E rule \in Rules, t \in TraceChoices :
          stdp = [rule EXCEPT !.pre_trace = t.pre, !.post_trace = t.post]
    /\ edge_weight \in PriorWeights
    /\ running = NotRunning

\* the log of a call on the rule: its name, the rule and the weight before
RuleCall(name) ==
    [NoStep EXCEPT !.kind = name,
                   !.before = [rule |-> stdp, weight |-> edge_weight]]

\* stdp.on_pre_spike(pre, t)
OnPreSpike(pre) ==
    /\ ops < MaxOps
    /\ stdp' = QuantizedStdp_on_pre_spike(stdp, pre)
    /\ last' = RuleCall("on_pre_spike")
    /\ ops' = ops + 1
    /\ UNCHANGED <<rt, seeds, calls, plain, edge_weight, running>>

\* stdp.on_post_spike(post, t)
OnPostSpike(post) ==
    /\ ops < MaxOps
    /\ stdp' = QuantizedStdp_on_post_spike(stdp, post)
    /\ last' = RuleCall("on_post_spike")
    /\ ops' = ops + 1
    /\ UNCHANGED <<rt, seeds, calls, plain, edge_weight, running>>

\* stdp.decay()
Decay ==
    /\ ops < MaxOps
    /\ stdp' = QuantizedStdp_decay(stdp)
    /\ last' = RuleCall("decay")
    /\ ops' = ops + 1
    /\ UNCHANGED <<rt, seeds, calls, plain, edge_weight, running>>

\* stdp.apply_edge(pre, post, &mut weight)
ApplyEdge(pre, post) ==
    /\ ops < MaxOps
    /\ \E r \in {QuantizedStdp_apply_edge(stdp, pre, post, edge_weight)} :
          /\ stdp' = r.rule
          /\ edge_weight' = r.weight
    /\ last' = [RuleCall("apply_edge") EXCEPT !.visited = <<pre, post>>]
    /\ ops' = ops + 1
    /\ UNCHANGED <<rt, seeds, calls, plain, running>>

NextStdp ==
    \/ \E pre \in StdpNeurons : OnPreSpike(pre)
    \/ \E post \in StdpNeurons : OnPostSpike(post)
    \/ Decay
    \/ \E pre \in StdpNeurons, post \in StdpNeurons : ApplyEdge(pre, post)

SpecStdp == InitStdp /\ [][NextStdp]_vars

(***************************************************************************)
(* C13.  As claimed: after any call of apply_edge, for any rule            *)
(* parameters, any trace values and any prior weight, the written weight   *)
(* is at least w_min and at most w_max.                                    *)
(***************************************************************************)
C13_AsClaimed ==
    last.kind = "apply_edge" =>
        stdp.w_min <= edge_weight /\ edge_weight <= stdp.w_max

(***************************************************************************)
(* C13, amended.  After any call of apply_edge on a rule with              *)
(* w_min <= w_max, for any traces and any prior weight, the written weight *)
(* is at least w_min and at most w_max; on a rule with w_min > w_max the   *)
(* written weight is w_max.                                                *)
(***************************************************************************)
C13_WeightClamped ==
    last.kind = "apply_edge" =>
        IF stdp.w_min <= stdp.w_max
        THEN stdp.w_min <= edge_weight /\ edge_weight <= stdp.w_max
        ELSE edge_weight = stdp.w_max

\* a call that raised a weight from inside the bounds to above w_max, which
\* the clamp brought back to w_max
C13_Witness ==
    /\ last.kind = "apply_edge"
    /\ stdp.w_min < stdp.w_max
    /\ last.before.weight >= stdp.w_min
    /\ last.before.weight < stdp.w_max
    /\ edge_weight = stdp.w_max

(***************************************************************************)
(* C14.  After any sequence of on_pre_spike, on_post_spike and decay calls *)
(* (and apply_edge calls) on a rule whose decay factors are in (0, 1],     *)
(* every pre-trace and post-trace value t has 0 <= t <= i32::MAX.          *)
(***************************************************************************)
AlphaInUnitInterval(p) ==
    /\ 0 < p.alpha_pre /\ p.alpha_pre <= ONE
    /\ 0 < p.alpha_post /\ p.alpha_post <= ONE

C14_TracesInRange ==
    AlphaInUnitInterval(stdp) =>
        /\ \A i \in 1..Len(stdp.pre_trace) :
              0 <= stdp.pre_trace[i] /\ stdp.pre_trace[i] <= I32_MAX
        /\ \A i \in 1..Len(stdp.post_trace) :
              0 <= stdp.post_trace[i] /\ stdp.post_trace[i] <= I32_MAX
        /\ Len(stdp.pre_trace) = Len(stdp.post_trace)

\* a pre spike on a trace less than 1.0 below i32::MAX: the increment
\* saturated
C14_Witness ==
    /\ AlphaInUnitInterval(stdp)
    /\ last.kind = "on_pre_spike"
    /\ \E i \in 1..Len(stdp.pre_trace) :
          /\ i <= Len(last.before.rule.pre_trace)
          /\ last.before.rule.pre_trace[i] > I32_MAX - ONE
          /\ last.before.rule.pre_trace[i] < I32_MAX
          /\ stdp.pre_trace[i] = I32_MAX

(***************************************************************************)
(* C21.  apply_edge(pre, post, w) writes back exactly                      *)
(* clamp(sat_sub(sat_add(w, mul(a_plus, pre_trace[pre])),                  *)
(*               mul(a_minus, post_trace[post])), w_min, w_max)            *)
(* in Q16.16 integers, and changes no trace value; in particular with      *)
(* a_plus = 1.0, a_minus = 0, w_min = 0.25, w_max = 0.75, w = 0.7 and one  *)
(* prior on_pre_spike(0), apply_edge(0, 1, w) yields w_max.                *)
(***************************************************************************)
\* clamp: the lower bound, then the upper bound
clamp(x, lo, hi) ==
    LET raised == IF x > lo THEN x ELSE lo
    IN  IF raised < hi THEN raised ELSE hi

\* the rule of test_clamp_bounds, before any call
ClampRule ==
    QuantizedStdp_new(F32(1, 1), F32(0, 1), F32(1, 1), F32(1, 1),
                      F32(1, 4), F32(3, 4))

\* the arguments of the apply_edge call just made
apply_pre == last.visited[1]
apply_post == last.visited[2]

C21_ApplyEdgeFormula ==
    last.kind = "apply_edge" =>
        LET p == last.before.rule
            w == last.before.weight
            pre_tr == QuantizedStdp_traces(p, apply_pre).pre
            post_tr == QuantizedStdp_traces(p, apply_post).post
        IN  /\ edge_weight =
                  clamp(fx_sub_sat(fx_add_sat(w, fx_mul(p.a_plus, pre_tr)),
                                   fx_mul(p.a_minus, post_tr)),
                        p.w_min, p.w_max)
            /\ \A id \in 0..(Len(stdp.pre_trace) + 1) :
                  QuantizedStdp_traces(stdp, id) = QuantizedStdp_traces(p, id)
            /\ (/\ [p EXCEPT !.pre_trace = <<>>, !.post_trace = <<>>] = ClampRule
                /\ w = fx_from_f32(F32(7, 10))
                /\ p.pre_trace = <<ONE>>
                /\ apply_pre = 0 /\ apply_post = 1)
               => edge_weight = stdp.w_max

\* test_clamp_bounds: the rule built, on_pre_spike(0), apply_edge(0, 1, 0.7)
\* gave 0.75
C21_Witness ==
    /\ last.kind = "apply_edge"
    /\ ops = 2
    /\ [last.before.rule EXCEPT !.pre_trace = <<>>, !.post_trace = <<>>] = ClampRule
    /\ last.before.rule.pre_trace = <<ONE>>
    /\ last.before.rule.post_trace = <<0>>
    /\ last.before.weight = fx_from_f32(F32(7, 10))
    /\ apply_pre = 0 /\ apply_post = 1
    /\ edge_weight = fx_from_f32(F32(3, 4))
    /\ stdp.pre_trace = <<ONE, 0>>

(***************************************************************************)
(* One neuron injected call by call                                        *)
(***************************************************************************)
\* the thresholds and refractory_until values the neuron is set up with
NeuronThresholds == {F32(1, 1), F32(1, 2), F32(0, 1), F32(-1, 2)}

RefractoryChoices == {0, 2, U64Max}

\* the arguments of inject
InjectInputs == {I32_MIN, -SCALE, -1, 0, 1, SCALE \div 2, SCALE, I32_MAX}

InjectTimes == {0, 1, 2, U64Max}

\* rt.add_neuron(threshold); rt.neurons_mut()[0].refractory_until = ...
InitNeuron ==
    /\ \E threshold \in NeuronThresholds, refractory \in RefractoryChoices :
          rt = [SnnRuntimePlus_add_neuron(SnnRuntimePlus_new(4), threshold)
                  EXCEPT !.inner.neurons[1].refractory_until = refractory]
    /\ seeds = <<>>
    /\ calls = 0
    /\ ops = 0
    /\ plain = TRUE
    /\ last = NoStep
    /\ stdp = QuantizedStdp_with_defaults
    /\ edge_weight = 0
    /\ running = NotRunning

\* rt.neurons_mut()[0].inject(input, time); the log keeps the runtime before,
\* the arguments and the returned bool
Inject(input, time) ==
    /\ ops < MaxOps
    /\ \E r \in {Neuron_inject(rt.inner.neurons[1], input, time)} :
          /\ rt' = [rt EXCEPT !.inner.neurons[1] = r.neuron]
          /\ last' = [NoStep EXCEPT
                        !.kind = "inject",
                        !.before = rt,
                        !.injected = <<[tgt |-> 0, fired |-> r.fired]>>,
                        !.delivered = <<[input |-> input, time |-> time]>>]
    /\ ops' = ops + 1
    /\ UNCHANGED <<seeds, calls, plain, stdp, edge_weight, running>>

NextNeuron == \E input \in InjectInputs, time \in InjectTimes : Inject(input, time)

SpecNeuron == InitNeuron /\ [][NextNeuron]_vars

\* the neuron before and after the inject call just made, its arguments and
\* what it returned
neuron_before == last.before.inner.neurons[1]

neuron_after == rt.inner.neurons[1]

inject_input == last.delivered[1].input

inject_time == last.delivered[1].time

inject_fired == last.injected[1].fired

(***************************************************************************)
(* C15.  inject(input, time) with time < refractory_until returns false    *)
(* and leaves the membrane and every other field of the neuron unchanged,  *)
(* for every input.                                                        *)
(***************************************************************************)
C15_RefractoryFrame ==
    (last.kind = "inject" /\ inject_time < neuron_before.refractory_until) =>
        /\ ~inject_fired
        /\ neuron_after = neuron_before

\* a refractory call whose input would have taken a non-zero membrane over
\* the threshold
C15_Witness ==
    /\ last.kind = "inject"
    /\ inject_time < neuron_before.refractory_until
    /\ neuron_before.membrane # 0
    /\ i32_saturating_add(neuron_before.membrane, inject_input)
          >= neuron_before.threshold
    /\ neuron_after.membrane = neuron_before.membrane

(***************************************************************************)
(* C20.  inject(input, time) with time >= refractory_until returns true    *)
(* exactly when saturating_add(membrane, input) >= threshold; when it      *)
(* returns true the membrane is 0 afterwards, when it returns false the    *)
(* membrane is saturating_add(old membrane, input), negative values kept;  *)
(* refractory_until (and id and threshold) are never changed.              *)
(***************************************************************************)
C20_IntegrateAndFire ==
    last.kind = "inject" =>
        /\ neuron_after.refractory_until = neuron_before.refractory_until
        /\ neuron_after.id = neuron_before.id
        /\ neuron_after.threshold = neuron_before.threshold
        /\ inject_time >= neuron_before.refractory_until =>
              LET sum == i32_saturating_add(neuron_before.membrane,
                                            inject_input)
              IN  /\ inject_fired <=> sum >= neuron_before.threshold
                  /\ inject_fired => neuron_after.membrane = 0
                  /\ ~inject_fired => neuron_after.membrane = sum

\* a call outside the refractory period that did not fire and left the
\* membrane negative, below what it was
C20_Witness ==
    /\ last.kind = "inject"
    /\ inject_time >= neuron_before.refractory_until
    /\ ~inject_fired
    /\ neuron_before.membrane < 0
    /\ neuron_after.membrane < neuron_before.membrane

(***************************************************************************)
(* The aliasing scenario: a wheel of 4 slots and no network                *)
(***************************************************************************)
\* the wheel before, between and after the two schedule calls of the
\* scenario: (n0, t = 0), then (n0, t = 4)
AliasingSetups ==
    LET r0 == SnnRuntimePlus_new(4)
        r1 == [r0 EXCEPT !.inner.queue =
                  TimeWheel_schedule(@, SpikeEvent(0, 0))]
        r2 == [r1 EXCEPT !.inner.queue =
                  TimeWheel_schedule(@, SpikeEvent(0, 4))]
    IN  {r0, r1, r2}

InitWheel == InitWith(AliasingSetups)

SpecWheel == InitWheel /\ [][Next]_vars

(***************************************************************************)
(* C16.  With W = 4 and current_time = 0, after scheduling (n0, 0) and     *)
(* then (n0, 4): the first next() call returns both events together, in    *)
(* insertion order, and the t = 4 event is not returned again, neither by  *)
(* the call made when current_time = 4 nor by any other later call.        *)
(***************************************************************************)
\* the two events of the scenario were scheduled first, one after the other,
\* before any call popped a slot
AliasedPair ==
    /\ queue.wheel_size = 4
    /\ Len(seeds) >= 2
    /\ seeds[1] = [neuron_id |-> 0, time |-> 0, seq |-> 0, at |-> 0]
    /\ seeds[2] = [neuron_id |-> 0, time |-> 4, seq |-> 1, at |-> 0]

C16_AliasedTogether ==
    (AliasedPair /\ Stepped) =>
        /\ calls = 1 =>
              /\ Len(last.events) >= 2
              /\ SubSeq(last.events, 1, 2) = <<seeds[1], seeds[2]>>
        /\ calls > 1 => seeds[2] \notin Range(last.events)
        /\ seeds[2] \notin AllEvents(queue)

\* the call made when current_time = 4 returned nothing
C16_Witness ==
    /\ AliasedPair
    /\ last.kind = "next"
    /\ queue_before.current_time = 4
    /\ last.events = <<>>
    /\ calls = 5

(***************************************************************************)
(* Construction with any wheel size, 0 included                            *)
(* TimeWheel::new(0) returns a wheel with no bucket and wheel_size = 0     *)
(* (the loop "for _ in 0..wheel_size" pushes nothing).  On that wheel      *)
(* schedule and next evaluate "% self.wheel_size" with a zero divisor,     *)
(* which panics; so do step_once, run_until and run_ticks, through next.   *)
(***************************************************************************)
\* the calls that reach "% self.wheel_size"
WheelCalls == {"schedule", "next", "step_once", "run_until"}

\* SnnRuntimePlus::new(wheel_size), no neuron and no edge added
InitAnyWheel ==
    /\ \E wheel_size \in 0..MaxWheel : rt = SnnRuntimePlus_new(wheel_size)
    /\ seeds = <<>>
    /\ calls = 0
    /\ ops = 0
    /\ plain = TRUE
    /\ last = NoStep
    /\ stdp = QuantizedStdp_with_defaults
    /\ edge_weight = 0
    /\ running = NotRunning

\* a call on the wheel built with wheel_size = 0: the remainder by zero
\* panics before anything is written
PanicOnZeroWheel(call) ==
    /\ ops < MaxOps
    /\ rt.inner.queue.wheel_size = 0
    /\ last.kind # "panic"
    /\ last' = [NoStep EXCEPT !.kind = "panic", !.before = rt,
                              !.visited = <<call>>]
    /\ ops' = ops + 1
    /\ UNCHANGED <<rt, seeds, calls, plain, stdp, edge_weight, running>>

NextAnyWheel ==
    \/ \E call \in WheelCalls : PanicOnZeroWheel(call)
    \/ rt.inner.queue.wheel_size # 0 /\ Next

SpecAnyWheel == InitAnyWheel /\ [][NextAnyWheel]_vars

(***************************************************************************)
(* C17.  Constructing a time wheel / runtime with wheel_size = 0 is        *)
(* rejected at construction time, so that no later schedule or next call   *)
(* on a constructed wheel can fail: no constructed runtime has a wheel of  *)
(* size 0, and no call panics.                                             *)
(***************************************************************************)
C17_ZeroWheelRejected ==
    /\ queue.wheel_size # 0
    /\ last.kind # "panic"

\* a call on a constructed wheel failed
C17_CallPanicked ==
    /\ last.kind = "panic"
    /\ queue.wheel_size = 0

(***************************************************************************)
(* run_until and run_ticks, one loop iteration at a time                   *)
(* running holds the call under way: until, the current_time the call      *)
(* started with (start), the argument of run_ticks if the call came        *)
(* through it (ticks), and two history fields: steps, the number of        *)
(* step_once calls the loop has made (it stops counting above U64Max),     *)
(* and odd, the parity of that number.                                     *)
(***************************************************************************)
\* the arguments of run_until: the tick before current_time, current_time,
\* the next tick, the largest tick but one and the largest tick
UntilChoices(q) ==
    {t \in {q.current_time - 1, q.current_time, q.current_time + 1,
            U64Max - 1, U64Max} : t >= 0 /\ t <= U64Max}

\* the arguments of run_ticks
TickChoices == {0, 1, 2, U64Max}

InitRun == InitWith(SmallNetworks)

\* rt.run_until(until) is entered
CallRunUntil(until) ==
    /\ ops < MaxOps
    /\ ~running.active
    /\ running' = [active |-> TRUE, until |-> until,
                   start |-> rt.inner.queue.current_time, ticks |-> None,
                   steps |-> 0, odd |-> FALSE]
    /\ last' = NoStep
    /\ ops' = ops + 1
    /\ UNCHANGED <<rt, seeds, calls, plain, stdp, edge_weight>>

\* rt.run_ticks(ticks) is entered, and calls run_until
CallRunTicks(ticks) ==
    /\ ops < MaxOps
    /\ ~running.active
    /\ running' = [active |-> TRUE,
                   until |-> run_ticks_until(rt.inner.queue.current_time, ticks),
                   start |-> rt.inner.queue.current_time,
                   ticks |-> Some(ticks), steps |-> 0, odd |-> FALSE]
    /\ last' = NoStep
    /\ ops' = ops + 1
    /\ UNCHANGED <<rt, seeds, calls, plain, stdp, edge_weight>>

\* "while current_time <= until": the test holds and the loop makes one more
\* turn (the part of LoopStep that is about the call under way)
LoopTurn ==
    /\ running.active
    /\ rt.inner.queue.current_time <= running.until
    /\ running' = [running EXCEPT
                     !.steps = IF @ > U64Max THEN @ ELSE @ + 1,
                     !.odd = ~@]

\* "while current_time <= until": the test holds, one step_once is made
LoopStep ==
    /\ LoopTurn
    /\ \E r \in {SnnRuntimePlus_step_once(rt)} :
          /\ rt' = r.rt
          /\ last' = r.log
    /\ calls' = IF calls > U64Max THEN calls ELSE calls + 1
    /\ UNCHANGED <<seeds, ops, plain, stdp, edge_weight>>

\* "while current_time <= until": the test fails, the call returns
LoopExit ==
    /\ running.active
    /\ rt.inner.queue.current_time > running.until
    /\ running' = [running EXCEPT !.active = FALSE]
    /\ last' = [NoStep EXCEPT !.kind = "returned"]
    /\ UNCHANGED <<rt, seeds, calls, ops, plain, stdp, edge_weight>>

NextRun ==
    \/ \E until \in UntilChoices(rt.inner.queue) : CallRunUntil(until)
    \/ \E ticks \in TickChoices : CallRunTicks(ticks)
    \/ LoopStep
    \/ LoopExit
    \/ ~running.active /\ StepOnce

\* the program is sequential: a loop under way goes on.  step_once always
\* returns, so LoopStep is enabled exactly when LoopTurn is, and every step
\* that changes running as LoopTurn says is a LoopStep.
SpecRun ==
    InitRun /\ [][NextRun]_vars /\ WF_running(LoopTurn) /\ WF_vars(LoopExit)

\* a run_until / run_ticks call has just returned
Returned == last.kind = "returned" /\ ~running.active

(***************************************************************************)
(* C18.  run_until(until) terminates for every value of until, the largest *)
(* u64 included, and every initial state: a call under way returns.        *)
(***************************************************************************)
C18_RunUntilTerminates == [](running.active => <>(~running.active))

\* C18, the calls that do end: with until below the largest u64 the call
\* returns
C18_TerminatesBelowMax ==
    []((running.active /\ running.until < U64Max) => <>(~running.active))

\* C18, the state on return: current_time = max(start, until + 1), and no
\* step was taken if current_time was above until at the start
C18_OnReturn ==
    Returned =>
        /\ queue.current_time =
              (IF running.start > running.until + 1
               THEN running.start ELSE running.until + 1)
        /\ running.start > running.until => running.steps = 0

\* a run_until(largest u64) under way at the saturated current_time, after
\* more step_once calls than there are ticks
C18_StillRunning ==
    /\ running.active
    /\ running.until = U64Max
    /\ queue.current_time = U64Max
    /\ running.steps > U64Max

(***************************************************************************)
(* C19.  As claimed: run_ticks(n) performs exactly n step_once calls, so   *)
(* that current_time on return is the initial current_time + n (when no    *)
(* saturation occurs).                                                     *)
(***************************************************************************)
\* a run_ticks(n) call has just returned, and initial current_time + n + 1
\* is still a tick
ReturnedFromRunTicks ==
    /\ Returned
    /\ running.ticks.some
    /\ running.start + running.ticks.v < U64Max

C19_AsClaimed ==
    ReturnedFromRunTicks =>
        /\ running.steps = running.ticks.v
        /\ queue.current_time = running.start + running.ticks.v

(***************************************************************************)
(* C19, amended.  run_ticks(n) performs exactly n + 1 step_once calls (the *)
(* ticks initial current_time .. initial current_time + n, both included), *)
(* so that current_time on return is the initial current_time + n + 1      *)
(* (when no saturation occurs).                                            *)
(***************************************************************************)
C19_RunTicksInclusive ==
    ReturnedFromRunTicks =>
        /\ running.steps = running.ticks.v + 1
        /\ queue.current_time = running.start + running.ticks.v + 1

\* run_ticks(2) returned after 3 steps, started after the first tick
C19_Witness ==
    /\ ReturnedFromRunTicks
    /\ running.ticks.v = 2
    /\ running.start > 0
    /\ running.steps = 3
    /\ queue.current_time = running.start + 3

(***************************************************************************)
(* The runtime built with feature "plasticity".  In this specification     *)
(* stdp is the runtime's plasticity field: None after new(), Some(rule)    *)
(* after set_plasticity(rule).                                             *)
(***************************************************************************)
\* the rules a caller installs: the default one, and one with large gains
\* and a wide weight window
InstalledRules ==
    {QuantizedStdp_with_defaults,
     QuantizedStdp_new(F32(1, 2), F32(1, 4), F32(1, 2), F32(1, 2),
                       F32(-2, 1), F32(2, 1))}

InitFeature ==
    /\ rt \in SmallNetworks
    /\ seeds = rt.inner.queue.buckets[0]
    /\ calls = 0
    /\ ops = 0
    /\ plain = TRUE
    /\ last = NoStep
    /\ stdp = None
    /\ edge_weight = 0
    /\ running = NotRunning

\* rt.set_plasticity(rule)
SetPlasticity(rule) ==
    /\ ops < MaxOps
    /\ stdp' = Some(rule)
    /\ last' = NoStep
    /\ ops' = ops + 1
    /\ UNCHANGED <<rt, seeds, calls, plain, edge_weight, running>>

\* rt.step_once_with_budgets(budgets), feature "plasticity"
FeatureStep(budgets) ==
    /\ ops < MaxOps
    /\ \E r \in {feature_step_once_with_budgets(rt, stdp, budgets)} :
          /\ rt' = r.rt
          /\ stdp' = r.plasticity
          /\ last' = r.log @@ [hooks |-> r.hooks, plasticity |-> stdp]
    /\ calls' = calls + 1
    /\ ops' = ops + 1
    /\ plain' = (plain /\ budgets = StepBudgets_default)
    /\ UNCHANGED <<seeds, edge_weight, running>>

NextFeature ==
    \/ \E rule \in InstalledRules : SetPlasticity(rule)
    \/ \E n \in SeedNeurons, t \in SeedTimes(rt.inner.queue) : Schedule(n, t)
    \/ \E budgets \in BudgetChoices : FeatureStep(budgets)

SpecFeature == InitFeature /\ [][NextFeature]_vars

\* the last operation was a step made with a rule installed
SteppedWithRule == last.kind = "plus" /\ last.plasticity.some

\* the positions of the call history that are calls of the named hook
HookPositions(name) == {i \in 1..Len(last.hooks) : last.hooks[i].hook = name}

\* the popped event whose outgoing edges are being visited at position i of
\* the call history: the one of the latest on_pre_spike call
EventAt(i) ==
    LET pres == {k \in HookPositions("on_pre_spike") : k < i}
        k == CHOOSE m \in pres : \A n \in pres : n <= m
    IN  last.hooks[k]

(***************************************************************************)
(* C22.  When a plasticity rule is installed, every step_once_with_budgets *)
(* call invokes decay exactly once, before the slot is popped and before   *)
(* any on_pre_spike, inject, on_post_spike or apply_edge of that step;     *)
(* on_pre_spike is then called for popped events in insertion order (all   *)
(* of them when no budget trips, the events up to the one being processed  *)
(* at the trip otherwise), and for each scheduled induced spike            *)
(* on_post_spike(tgt) is called immediately before apply_edge(             *)
(* ev.neuron_id, tgt).                                                     *)
(***************************************************************************)
C22_HookOrder ==
    SteppedWithRule =>
        LET h == last.hooks
            pres == SelectSeq(h, LAMBDA x : x.hook = "on_pre_spike")
        IN  /\ HookPositions("decay") = {1}
            /\ HookPositions("next") = {2}
            /\ Len(pres) <= Len(last.events)
            /\ ~last.tripped => Len(pres) = Len(last.events)
            /\ \A j \in 1..Len(pres) :
                  /\ pres[j].a = last.events[j].neuron_id
                  /\ pres[j].b = last.events[j].time
            /\ Cardinality(HookPositions("schedule")) = last.spikes_scheduled
            /\ \A i \in HookPositions("schedule") :
                  /\ i + 2 <= Len(h)
                  /\ h[i + 1] = Hook("on_post_spike", h[i].a, h[i].b)
                  /\ h[i + 2] = Hook("apply_edge", EventAt(i).a, h[i].a)
            /\ \A i \in HookPositions("on_post_spike") :
                  h[i - 1].hook = "schedule"
            /\ \A i \in HookPositions("apply_edge") :
                  h[i - 1].hook = "on_post_spike"

\* a step with a rule installed that popped two events of different neurons
\* and scheduled an induced spike
C22_Witness ==
    /\ SteppedWithRule
    /\ Len(last.events) = 2
    /\ last.events[1].neuron_id # last.events[2].neuron_id
    /\ Cardinality(HookPositions("on_pre_spike")) = 2
    /\ last.spikes_scheduled >= 1
    /\ HookPositions("apply_edge") # {}

(***************************************************************************)
(* C23.  Every SpikeEvent that step_once schedules into the wheel (an      *)
(* induced spike with time = saturating_add(ev.time, edge.delay)) has      *)
(* time >= the wheel's current_time at the moment it is scheduled, for     *)
(* every edge delay allowed by the data model (including delay = 0).       *)
(***************************************************************************)
\* the events in the wheel that a step scheduled
InducedInWheel == AllEvents(queue) \ Range(seeds)

C23_InducedNotInPast ==
    \A e \in InducedInWheel : e.time >= e.at

\* C23 for the spikes induced over an edge of delay >= 1 by an event popped
\* at its own tick: those are scheduled for a tick not yet popped
C23_InducedAheadWithDelay ==
    (/\ last.kind \in {"plus", "core"}
     /\ \A i \in 1..Len(last.events) :
           last.events[i].time = queue_before.current_time
     /\ \A i \in 1..Len(rt.inner.edges) : rt.inner.edges[i].delay >= 1)
    => \A e \in InducedInWheel \ AllEvents(queue_before) : e.time >= e.at

\* a spike induced over the delay-0 edge sits in the wheel with a time below
\* the current_time it was scheduled at
C23_InducedInPast ==
    /\ last.kind = "plus"
    /\ \E e \in InducedInWheel :
          /\ e.time = queue_before.current_time
          /\ e.at = queue_before.current_time + 1
          /\ \E i \in 1..Len(rt.inner.edges) : rt.inner.edges[i].delay = 0

(***************************************************************************)
(* Networks with an edge of delay 0                                        *)
(***************************************************************************)
DelayZeroNetworks == UNION {{Zero(W), Seeded(Zero(W))} : W \in 1..MaxWheel}

InitDelayZero == InitWith(DelayZeroNetworks)

SpecDelayZero == InitDelayZero /\ [][Next]_vars

\* the events the step just made put into the wheel
NewInWheel == AllEvents(queue) \ AllEvents(queue_before)

\* the step just made processed the slot of tick t: it started with
\* current_time = t and every event it popped has time t
ProcessedTick(t) ==
    /\ last.kind \in {"plus", "core"}
    /\ queue_before.current_time = t
    /\ \A i \in 1..Len(last.events) : last.events[i].time = t

(***************************************************************************)
(* C24.  With an edge of delay 0, a spike induced while processing the     *)
(* tick-t slot is scheduled with time t into the bucket of tick t after    *)
(* current_time has already advanced to t + 1, and it is returned by the   *)
(* step_once call that starts with current_time = t + W (one full wheel    *)
(* revolution later), not earlier.  (t + W is a tick: it does not exceed   *)
(* the largest u64.)                                                       *)
(***************************************************************************)
C24_DelayZeroOneRevolutionLater ==
    LET W == queue.wheel_size IN
    /\ \A t \in 0..(U64Max - W) :
          (ProcessedTick(t) /\ ~last.tripped) =>
              \A i \in 1..Len(last.injected) :
                  (last.injected[i].fired /\ last.delivered[i].time = t) =>
                      \E e \in NewInWheel :
                          /\ e.neuron_id = last.injected[i].tgt
                          /\ e.time = t
                          /\ e.at = t + 1
                          /\ \E k \in 1..Len(queue.buckets[t % W]) :
                                queue.buckets[t % W][k] = e
    /\ \A e \in InducedInWheel :
          (e.at = e.time + 1 /\ e.time + W <= U64Max) =>
              /\ queue.current_time <= e.time + W
              /\ \E k \in 1..Len(queue.buckets[e.time % W]) :
                    queue.buckets[e.time % W][k] = e
    /\ last.kind \in {"plus", "core", "next"} =>
          \A i \in 1..Len(last.events) :
              LET e == last.events[i] IN
              (e \notin Range(seeds) /\ e.at = e.time + 1 /\ e.time + W <= U64Max)
                  => queue_before.current_time = e.time + W

\* on a wheel of more than one slot, a step returns the spike that the
\* delay-0 edge induced one revolution before
C24_Witness ==
    /\ last.kind = "plus"
    /\ queue.wheel_size > 1
    /\ rt.inner.edges[1].delay = 0
    /\ \E i \in 1..Len(last.events) :
          /\ last.events[i] \notin Range(seeds)
          /\ last.events[i].neuron_id = 1
          /\ last.events[i].at = last.events[i].time + 1
          /\ queue_before.current_time = last.events[i].time + queue.wheel_size

(***************************************************************************)
(* Two edges onto one target, visited in either order                      *)
(***************************************************************************)
\* the weights of the two edges n0 -> n1, in the order of the add_edge calls
OrderPairs ==
    {<<F32(1, 1), F32(3, 10)>>, <<F32(3, 10), F32(1, 4)>>,
     <<F32(-1, 2), F32(1, 1)>>, <<F32(-30000, 1), F32(3, 10)>>,
     <<F32(6, 10), F32(6, 10)>>}

\* n0 and n1 of threshold 1.0 on a wheel of 2 slots, two edges n0 -> n1 of
\* delay 1 added in the order of the pair, n0 seeded at tick 0
OrderNet(pair) ==
    LET r0 == AddNeurons(SnnRuntimePlus_new(2), F32(4, 4), 2)
        r1 == SnnRuntimePlus_add_edge(r0, <<0>>, <<1>>, pair[1], 1)
    IN  Seeded(SnnRuntimePlus_add_edge(r1, <<0>>, <<1>>, pair[2], 1))

InitOrder == InitWith({OrderNet(pair) : pair \in OrderPairs})

NextOrder ==
    \/ \E n \in SeedNeurons, t \in SeedTimes(rt.inner.queue) : Schedule(n, t)
    \/ StepOnce

SpecOrder == InitOrder /\ [][NextOrder]_vars

\* the runtime r with its two edges added in the other order: the same
\* neurons, membranes and wheel content
OtherOrder(r) ==
    LET pair == CHOOSE pr \in OrderPairs :
                    OrderNet(pr).inner.edges = r.inner.edges
        o == OrderNet(<<pair[2], pair[1]>>)
    IN  [o EXCEPT !.inner.neurons = r.inner.neurons,
                  !.inner.queue = r.inner.queue]

\* the step just made, made on the runtime with the other edge order
other == SnnRuntimePlus_step_once(OtherOrder(before))

\* some logged inject call came out of the i32 range, from the i-th call on
RECURSIVE Saturates(_, _, _, _)
Saturates(neurons, injected, delivered, i) ==
    IF i > Len(injected) THEN FALSE
    ELSE LET t == injected[i].tgt
             m == neurons[t + 1].membrane
             x == delivered[i].input
             r == Neuron_inject(neurons[t + 1], x, delivered[i].time)
         IN  \/ x > 0 /\ m > I32_MAX - x
             \/ x < 0 /\ m < I32_MIN - x
             \/ Saturates([neurons EXCEPT ![t + 1] = r.neuron],
                          injected, delivered, i + 1)

\* a step that injected twice into the same target for the same
\* deliver_time, without saturation in either order
TwoInjectionsNoSaturation ==
    /\ last.kind = "plus"
    /\ Len(last.injected) >= 2
    /\ \A i \in 1..Len(last.injected) :
          /\ last.injected[i].tgt = last.injected[1].tgt
          /\ last.delivered[i].time = last.delivered[1].time
    /\ ~Saturates(before.inner.neurons, last.injected, last.delivered, 1)
    /\ ~Saturates(before.inner.neurons, other.log.injected,
                  other.log.delivered, 1)

\* the spikes a step scheduled: the wheel's events that were not there before
InducedSpikes(q_after, q_before) ==
    {Plain(e) : e \in AllEvents(q_after) \ AllEvents(q_before)}

\* the two orders end with the same membranes and the same induced spikes
SameOutcome ==
    /\ \A i \in 1..Len(rt.inner.neurons) :
          rt.inner.neurons[i].membrane = other.rt.inner.neurons[i].membrane
    /\ InducedSpikes(queue, queue_before)
          = InducedSpikes(other.rt.inner.queue, queue_before)

(***************************************************************************)
(* C25.  As claimed: for injections delivered to the same target at the    *)
(* same deliver_time from different edges within one step, the target's    *)
(* final membrane and the set of induced spikes do not depend on the order *)
(* in which the edges are visited, as long as no saturating addition       *)
(* saturates.                                                              *)
(***************************************************************************)
C25_AsClaimed == TwoInjectionsNoSaturation => SameOutcome

(***************************************************************************)
(* C25, amended.  ... do not depend on the order in which the edges are    *)
(* visited, as long as no saturating addition saturates and the target     *)
(* does not fire in either order.                                          *)
(***************************************************************************)
NoFire(log) == \A i \in 1..Len(log.injected) : ~log.injected[i].fired

C25_OrderIndependentBelowThreshold ==
    (TwoInjectionsNoSaturation /\ NoFire(last) /\ NoFire(other.log))
        => SameOutcome

\* two different weights were injected, the target fired in neither order
\* and holds their sum
C25_Witness ==
    /\ TwoInjectionsNoSaturation /\ NoFire(last) /\ NoFire(other.log)
    /\ Len(last.injected) = 2
    /\ last.delivered[1].input # last.delivered[2].input
    /\ other.log.delivered[1].input = last.delivered[2].input
    /\ rt.inner.neurons[2].membrane # before.inner.neurons[2].membrane
    /\ SameOutcome

(***************************************************************************)
(* A network grown call by call and stepped, beside snn-core's runtime     *)
(***************************************************************************)
\* the runtimes the runs start from: two neurons and no edge, the cyclic
\* network and the delay-0 network, for every wheel size up to MaxWheel
GrownNetworks ==
    UNION {{AddNeurons(SnnRuntimePlus_new(W), F32(4, 4), 2), Mix(W), Zero(W)} :
              W \in 1..MaxWheel}

InitGrown == InitWith(GrownNetworks)

\* add_neuron, add_edge with any of the source lists, a seed, step_once
NextGrown ==
    \/ AddNeuron
    \/ \E sources \in SourceLists : AddEdge(sources)
    \/ \E n \in SeedNeurons : \E t \in SeedTimes(rt.inner.queue) : Schedule(n, t)
    \/ StepOnce

SpecGrown == InitGrown /\ [][NextGrown]_vars

\* snn-core's SnnRuntime::step_once made on the inner runtime of the state
\* the last step started from
core == SnnRuntime_step_once(before)

\* the step just made was SnnRuntimePlus::step_once (no budgets)
PlainStep == last.kind = "plus" /\ last.budgets = StepBudgets_default

SameAsCore ==
    /\ last.events = core.events
    /\ rt.inner.neurons = core.rt.inner.neurons
    /\ rt.inner.queue = core.rt.inner.queue

\* no edge lists one source id twice
NoRepeatedSource(r) ==
    \A i \in 1..Len(r.inner.edges) :
        \A a, b \in 1..Len(r.inner.edges[i].sources) :
            a # b => r.inner.edges[i].sources[a] # r.inner.edges[i].sources[b]

(***************************************************************************)
(* C26.  For every network built through add_neuron/add_edge and every     *)
(* seeding of the wheel, SnnRuntimePlus::step_once and snn-core's          *)
(* SnnRuntime::step_once started from equal states return the same event   *)
(* list in the same order and leave equal neuron membranes and equal wheel *)
(* contents.                                                               *)
(***************************************************************************)
C26_SameAsCore == PlainStep => SameAsCore

\* the two steps agree on every network in which no edge repeats a source
C26_SameWithoutRepeatedSource ==
    (PlainStep /\ NoRepeatedSource(before)) => SameAsCore

\* a step over an edge with a repeated source that did deliver
C26_RepeatedSourceDelivered ==
    /\ PlainStep
    /\ ~NoRepeatedSource(before)
    /\ Len(last.injected) > Len(core.log.injected)

(***************************************************************************)
(* A network built call by call, then wrapped again with from_inner        *)
(***************************************************************************)
\* rt = SnnRuntimePlus::from_inner(rt.inner): the inner runtime is moved
\* into a new SnnRuntimePlus, whose index rebuild_adjacency computes
FromInner ==
    /\ ops < MaxOps + 1
    /\ rt' = SnnRuntimePlus_from_inner(rt.inner)
    /\ last' = [NoStep EXCEPT !.kind = "from_inner", !.before = rt]
    /\ calls' = calls + 1
    /\ ops' = ops + 1
    /\ UNCHANGED <<seeds, plain, stdp, edge_weight, running>>

NextRebuild ==
    \/ NextBuild
    \/ FromInner

SpecRebuild == InitBuild /\ [][NextRebuild]_vars

\* from_inner was just run on a runtime built by add_neuron and add_edge
\* calls alone
Rebuilt == last.kind = "from_inner" /\ calls = 1

\* every source id of every edge is the id of a neuron
SourcesAreNeurons(r) ==
    \A i \in 1..Len(r.inner.edges) :
        \A s \in Range(r.inner.edges[i].sources) : s < Len(r.inner.neurons)

(***************************************************************************)
(* C27.  The adjacency index produced by rebuild_adjacency (as run by      *)
(* from_inner on an inner runtime) equals the index that incremental       *)
(* add_neuron/add_edge calls maintain for the same sequence of neurons and *)
(* edges, including edges whose source ids are not (yet) ids of existing   *)
(* neurons.                                                                *)
(***************************************************************************)
C27_RebuildEqualsIncremental ==
    Rebuilt => rt.source_to_edges = before.source_to_edges

\* the two indexes are equal whenever every source id is the id of a neuron
\* by the time from_inner runs, repeated source ids included
C27_EqualWhenSourcesAreNeurons ==
    (Rebuilt /\ SourcesAreNeurons(rt)) => rt.source_to_edges = before.source_to_edges

\* an edge whose source became a neuron only after the edge was added, and
\* an edge with a repeated source, rebuilt into the same index
C27_RebuiltLateNeuron ==
    /\ Rebuilt /\ SourcesAreNeurons(rt)
    /\ rt.source_to_edges = before.source_to_edges
    /\ \E s \in 1..Len(rt.source_to_edges) : Len(rt.source_to_edges[s]) >= 2

(***************************************************************************)
(* Single calls on the wheel and the runtime, with and without budgets     *)
(***************************************************************************)
InitWait == InitWith(SmallNetworks \cup DelayZeroNetworks)

\* every call that pops one slot, and schedule
NextWait ==
    \/ \E n \in SeedNeurons : \E t \in SeedTimes(rt.inner.queue) : Schedule(n, t)
    \/ \E budgets \in BudgetChoices : StepOnceWithBudgets(budgets)
    \/ StepOnce
    \/ CoreStepOnce
    \/ QueueNext

SpecWait == InitWait /\ [][NextWait]_vars

\* the number of next()/step_once calls made since e was scheduled
CallsSince(q, e) == q.current_time - e.at

\* no stored event is in the wheel twice
StoredOnce(q) ==
    /\ \A k \in DOMAIN q.buckets :
          \A i, j \in 1..Len(q.buckets[k]) :
              i # j => q.buckets[k][i] # q.buckets[k][j]
    /\ \A k, l \in DOMAIN q.buckets :
          k # l => Range(q.buckets[k]) \cap Range(q.buckets[l]) = {}

\* an event still in the wheel has waited for fewer than W calls, and an
\* event just returned came back with the W-th call at the latest
WaitingBounded ==
    queue.current_time < U64Max =>
        /\ StoredOnce(queue)
        /\ \A e \in AllEvents(queue) :
              /\ e.at <= queue.current_time
              /\ CallsSince(queue, e) < queue.wheel_size
        /\ Stepped =>
              \A e \in Range(last.events) :
                  /\ e.at <= queue_before.current_time
                  /\ CallsSince(queue_before, e) + 1 <= queue.wheel_size

\* a call returns the events of its slot and takes exactly those out of the
\* wheel; whatever else is done (a trip included), the events that wait stay
\* and only newly scheduled ones are added
WaitingKept ==
    queue'.current_time < U64Max =>
        LET returned == IF calls' = calls + 1 THEN Range(last'.events) ELSE {}
        IN  /\ returned \subseteq AllEvents(queue)
            /\ returned \cap AllEvents(queue') = {}
            /\ AllEvents(queue) \ returned \subseteq AllEvents(queue')
            /\ \A e \in AllEvents(queue') \ AllEvents(queue) :
                  e.seq >= queue.scheduled
            /\ calls' = calls + 1 =>
                  returned = Range(queue.buckets[queue.current_time
                                                     % queue.wheel_size])

(***************************************************************************)
(* C28.  Every event scheduled into the wheel is returned by exactly one   *)
(* later next()/step_once call, at most W calls after it was scheduled,    *)
(* and is never returned twice or dropped (as long as current_time has not *)
(* saturated); budget trips do not remove or duplicate events waiting in   *)
(* the wheel.                                                              *)
(***************************************************************************)
C28_ReturnedOnceWithinW == [] WaitingBounded /\ [][WaitingKept]_vars

\* a step that tripped its budget returned an event with the W-th call after
\* the call that scheduled it, W >= 2, while another event kept waiting
C28_Witness ==
    /\ Stepped /\ last.tripped
    /\ queue.wheel_size >= 2
    /\ \E e \in Range(last.events) :
          CallsSince(queue_before, e) + 1 = queue.wheel_size
    /\ AllEvents(queue) \cap AllEvents(queue_before) # {}

(***************************************************************************)
(* C29.  For every neuron with threshold > 0 that is modified only through *)
(* inject (via step_once), membrane < threshold holds in every state       *)
(* between operations: the membrane never rests at or above the threshold  *)
(* after an injection.                                                     *)
(***************************************************************************)
C29_RestsBelowThreshold ==
    \A i \in 1..Len(rt.inner.neurons) :
        rt.inner.neurons[i].threshold > 0 =>
            rt.inner.neurons[i].membrane < rt.inner.neurons[i].threshold

\* a step in which one target reached its threshold and rests at 0 and
\* another target rests between 0 and its threshold
C29_Witness ==
    /\ Stepped
    /\ \E i \in 1..Len(last.injected) :
          /\ last.injected[i].fired
          /\ rt.inner.neurons[last.injected[i].tgt + 1].membrane = 0
    /\ \E i \in 1..Len(rt.inner.neurons) :
          /\ rt.inner.neurons[i].membrane > 0
          /\ rt.inner.neurons[i].membrane # before.inner.neurons[i].membrane
          /\ rt.inner.neurons[i].membrane < rt.inner.neurons[i].threshold

(***************************************************************************)
(* C30.  step_once / step_once_with_budgets never changes the number of    *)
(* neurons or edges, any neuron's id, threshold or refractory_until, any   *)
(* edge's id, sources, targets or delay, or the adjacency index; with no   *)
(* plasticity rule installed it never changes an edge weight; and when the *)
(* popped slot is empty it changes nothing except current_time (and the    *)
(* rule's traces through decay).                                           *)
(***************************************************************************)
\* a neuron without its membrane, an edge without its weight, a rule without
\* its traces, a runtime without its current_time
NeuronFrame(n) == [n EXCEPT !.membrane = 0]

EdgeFrame(e) == [e EXCEPT !.weight = 0]

RuleFrame(p) ==
    IF p.some THEN Some([p.v EXCEPT !.pre_trace = <<>>, !.post_trace = <<>>])
    ELSE p

TimeFrame(r) == [r EXCEPT !.inner.queue.current_time = 0]

C30_StepFrame ==
    last.kind = "plus" =>
        /\ Len(rt.inner.neurons) = Len(before.inner.neurons)
        /\ Len(rt.inner.edges) = Len(before.inner.edges)
        /\ \A i \in 1..Len(before.inner.neurons) :
              NeuronFrame(rt.inner.neurons[i])
                  = NeuronFrame(before.inner.neurons[i])
        /\ \A i \in 1..Len(before.inner.edges) :
              EdgeFrame(rt.inner.edges[i]) = EdgeFrame(before.inner.edges[i])
        /\ rt.source_to_edges = before.source_to_edges
        /\ ~last.plasticity.some => rt.inner.edges = before.inner.edges
        /\ last.events = <<>> =>
              /\ TimeFrame(rt) = TimeFrame(before)
              /\ RuleFrame(stdp) = RuleFrame(last.plasticity)

\* a step with a rule installed that changed a membrane, an edge weight and
\* the wheel, the popped slot not empty
C30_Witness ==
    /\ SteppedWithRule
    /\ last.events # <<>>
    /\ \E i \in 1..Len(rt.inner.edges) :
          rt.inner.edges[i].weight # before.inner.edges[i].weight
    /\ \E i \in 1..Len(rt.inner.neurons) :
          rt.inner.neurons[i].membrane # before.inner.neurons[i].membrane
    /\ AllEvents(queue) # {}

\* a step on an empty slot with a rule installed whose traces decayed
C30_EmptySlotDecayed ==
    /\ SteppedWithRule
    /\ last.events = <<>>
    /\ stdp # last.plasticity
    /\ queue.current_time = queue_before.current_time + 1

====
